---------------------------- MODULE Spec2Model ----------------------------
(***************************************************************************)
(* Tool provider connection lifecycle of the Tools Agent (V2).             *)
(*                                                                         *)
(* The module models toolsAgentExecute (ToolsAgent/V2/execute.ts): the     *)
(* acquisition of the toolkits and their closers, the batched processing   *)
(* of the input items, and the teardown in the finally block.  getTools    *)
(* of ../common is not part of the available sources; it is modelled from  *)
(* the design document as the Lifecycle Cache (getOrCreate per provider    *)
(* key).  The catalogue lookup of the MCP client tool (loadOptions.ts with  *)
(* connectMcpClient and getAllTools) and the utility functions             *)
(* createCallTool, getErrorDescriptionFromToolCall and                     *)
(* mcpToolToDynamicTool with parseRef and parseDefault are modelled too,   *)
(* each under a specification of its own.                                  *)
(***************************************************************************)
EXTENDS Naturals, Integers, Sequences, FiniteSets, TLC

(* ----------------------------- bounds ---------------------------------- *)
\* provider keys attached to the agent's tool input
NumKeys == 2
\* largest number of input items
MaxItems == 2
\* largest configured options.batching.batchSize
MaxBatchSize == 2
\* tool invocations made during one execution (all items together)
MaxCalls == 3
\* factory invocations per key during one acquisition
MaxAttempts == 2

\* pages one catalogue listing may run through
MaxPages == 2
\* tools on one page of the catalogue
MaxPageLen == 2
\* distinct cursors the server hands out
MaxCursor == 2
\* elements of the content array of a tool call result
MaxContentLen == 2
\* characters of the longest serialized schema handed to parseDefault
MaxSerializedLen == 102
\* tools of the largest catalogue a toolkit is built from or a selection is made in
MaxCatalogue == 2
\* nesting levels of the deepest value handed to a recursive validator
MaxDepth == 4

(* ---------------------------- constants -------------------------------- *)
\* parseDefault line 15: the cap of the schema excerpt in the error message
ExcerptCap == 100

Keys == 1..NumKeys
Items == 0..(MaxItems - 1)

VARIABLES
    pc,             \* position of toolsAgentExecute
    cache,          \* Lifecycle Cache: key -> Absent | Populating | Ready | Closed
    attempts,       \* factory invocations per key made by the running getTools call
    waiting,        \* keys on which a concurrent getOrCreate caller waits
    got,            \* key -> what getOrCreate last gave its caller(s):
                    \* none | entry | cached | error
    opened,         \* key -> set of connection handles ever opened for it
    tools,          \* const tools (execute.ts line 62): sequence of [key, handle]
    closeFunctions, \* const closeFunctions (line 62): sequence of [key, handle]
    nItems,         \* items.length
    batchSize,      \* options.batching.batchSize
    delayBetweenBatches,
    continueOnFail, \* this.continueOnFail()
    i,              \* loop variable of the batch loop (line 118)
    itemState,      \* item index -> state of its batch promise
    itemTools,      \* item index -> the tools array its agent/executor was built with
    inflight,       \* item index -> index in itemTools of the tool call in flight, 0 if none
    nInvokes,       \* tool invocations started so far
    returnData,     \* returnData (line 36)
    pending,        \* completion of the try block while finally runs
    outcome,        \* what toolsAgentExecute returned or threw
    closeIdx,       \* closers the finally loop has already gone through
    closeCalls,     \* key -> number of invocations of its closer
    closeLog,       \* one logger entry per closer the finally loop handled
    closeThrew,     \* keys whose closer threw
    cancelled,      \* the execution's cancel signal has fired
    lastCall,       \* what the last finished tool invocation gave its caller
    sseEndpoint,    \* the sseEndpoint parameter of the lookup
    connResult,     \* the Result connectMcpClient gave the lookup
    transport,      \* the URL the SSEClientTransport was created with, or none
    requests,       \* the cursors of the listTools requests sent, in order
    authentication, \* the authentication parameter of the lookup
    credential,     \* how the credential lookup of getAuthHeaders ended
    lpc,            \* position of getTools (McpClientTool/loadOptions.ts)
    headers,        \* what getAuthHeaders resolved to, or that it threw
    client,         \* the MCP client of the lookup: none | open | closed
    nConnect,       \* client.connect attempts of the lookup
    nClose,         \* client.close calls of the lookup
    cursor,         \* cursor of the next listTools request, 0 for undefined
    served,         \* the pages the server has answered with, in request order
    acc,            \* tools of the pages listed so far, concatenated
    lresult,        \* what the lookup returned or threw
    callError,      \* the value handed to getErrorDescriptionFromToolCall
    errorDescription, \* what getErrorDescriptionFromToolCall returned for it
    tool,           \* the McpTool handed to mcpToolToDynamicTool
    dynamicTool,    \* what mcpToolToDynamicTool returned or threw for it
    schemaInput,    \* the schema handed to parseDefault
    thrown,         \* what parseDefault threw for it
    catalogue,      \* the McpTools a toolkit is built from
    toolkit,        \* the toolkit built from the catalogue
    sample,         \* a nested value handed to the validator of a recursive schema
    verdict,        \* what that validator said about it
    selection,      \* the arguments of getSelectedTools
    selectedTools,  \* what getSelectedTools returned for them
    callInput,      \* the tool name, the remote response and the error callback of an invoke
    callReturn,     \* what the function made by createCallTool did and returned
    workflowExecutionData, \* the arguments of restoreChatHistory
    chatHistory     \* what restoreChatHistory returned for them

execVars == <<pc, cache, attempts, waiting, got, opened, tools, closeFunctions, nItems,
              batchSize, delayBetweenBatches, continueOnFail, i, itemState,
              itemTools, inflight, nInvokes, returnData, pending, outcome, closeIdx,
              closeCalls, closeLog, closeThrew, cancelled, lastCall>>

loadVars == <<lpc, headers, client, nConnect, nClose, cursor, served, acc, lresult,
              sseEndpoint, connResult, transport, requests, authentication, credential>>

errVars == <<callError, errorDescription>>
toolVars == <<tool, dynamicTool>>
defaultVars == <<schemaInput, thrown>>
toolkitVars == <<catalogue, toolkit>>
refVars == <<sample, verdict>>
selectVars == <<selection, selectedTools>>
callVars == <<callInput, callReturn>>
chatVars == <<workflowExecutionData, chatHistory>>

utilVars == <<errVars, toolVars, defaultVars, toolkitVars, refVars, selectVars,
              callVars, chatVars>>

vars == <<execVars, loadVars, utilVars>>

cacheVars == <<cache, attempts, waiting, got>>
paramVars == <<nItems, batchSize, delayBetweenBatches, continueOnFail>>
itemVars == <<itemState, itemTools, inflight, nInvokes>>
closeVars == <<closeIdx, closeCalls, closeLog, closeThrew>>

(* ----------------------------- errors ---------------------------------- *)
NoErr == [err |-> "none", item |-> -1]
Err(what) == [err |-> what, item |-> -1]
ItemErr(j) == [err |-> "item", item |-> j]
ParseErr(j) == [err |-> "jsonParse", item |-> j]

Min(a, b) == IF a < b THEN a ELSE b

(* ------------------------ Lifecycle Cache ------------------------------ *)
\* the entries a finished acquisition hands out, in key order
RECURSIVE ReadyEntries(_)
ReadyEntries(k) ==
    IF k > NumKeys THEN <<>>
    ELSE (IF cache[k] = "Ready"
          THEN <<[key |-> k, handle |-> CHOOSE h \in opened[k] : TRUE]>>
          ELSE <<>>) \o ReadyEntries(k + 1)

(* ------------------------- tool call errors ---------------------------- *)
\* a string, or undefined
Undefined == [defined |-> FALSE, value |-> ""]
Str(v) == [defined |-> TRUE, value |-> v]
\* getErrorDescriptionFromToolCall has not run
NotDescribed == [defined |-> FALSE, value |-> "pending"]

\* a field of the value: absent or no string, or a string
NotAString == [isString |-> FALSE, value |-> ""]
FieldValues(strings) == {NotAString} \cup {[isString |-> TRUE, value |-> v] : v \in strings}

\* the elements of a content array: null, or an object with or without a text
ContentElements == [isObject : BOOLEAN, text : FieldValues({"", "t1", "t2"})]

\* the content field: absent, no array, or an array
ContentValues ==
    {[kind |-> "absent", items |-> <<>>], [kind |-> "notArray", items |-> <<>>]}
    \cup {[kind |-> "array", items |-> c] :
            c \in UNION {[1..n -> ContentElements] : n \in 0..MaxContentLen}}

\* what getErrorDescriptionFromToolCall can be handed: a thrown error or a result
\* flagged isError; anything that is no object, or an object with these fields
ToolCallErrors ==
    [isObject : BOOLEAN, content : ContentValues,
     toolResult : FieldValues({"r"}), message : FieldValues({"m"})]

\* lines 66-68: the text of the first element that is an object with a string
\* text, undefined if there is none
RECURSIVE FindText(_, _)
FindText(items, k) ==
    IF k > Len(items) THEN Undefined
    ELSE IF items[k].isObject /\ items[k].text.isString
         THEN Str(items[k].text.value)
         ELSE FindText(items, k + 1)

\* getErrorDescriptionFromToolCall, lines 63-79
GetErrorDescriptionFromToolCall(result) ==
    IF result.isObject
    THEN IF result.content.kind = "array"
         THEN FindText(result.content.items, 1)
         ELSE IF result.toolResult.isString
              THEN Str(result.toolResult.value)
              ELSE IF result.message.isString
                   THEN Str(result.message.value)
                   ELSE Undefined
    ELSE Undefined

NoToolCallError ==
    [isObject |-> FALSE, content |-> [kind |-> "absent", items |-> <<>>],
     toolResult |-> NotAString, message |-> NotAString]

(* --------------------------- createCallTool ---------------------------- *)
\* what client.callTool can do: reject (an error of the transport or of the
\* server, or the request timeout), or resolve with a result
CallResponses ==
    {[threw |-> TRUE, isError |-> FALSE, has |-> h] : h \in {"error", "timeout"}}
    \cup {[threw |-> FALSE, isError |-> e, has |-> h] :
            e \in BOOLEAN, h \in {"toolResult", "content", "nothing"}}

\* a response that is a failed invocation
Failed(response) == response.threw \/ response.isError

NoCall == [failed |-> FALSE, via |-> "none", key |-> 0]

\* the error callback the node hands to createCallTool: the failure becomes the
\* result of the invocation
OnError(response, key) == [failed |-> Failed(response), via |-> "onError", key |-> key]

\* mutation: the error of client.callTool leaves createCallTool
CallToolRethrows(response, key) ==
    [failed |-> Failed(response), via |-> "thrown", key |-> key]
\* createCallTool lines 87-89: the catch block hands the error to onError
CallToolCatch(response, key) == OnError(response, key)

\* mutation: a failed call closes the client it went through
CallToolClosesOnError(response, key) == IF Failed(response) THEN {key} ELSE {}
\* createCallTool lines 81-104: the keys whose client the call closes; there is
\* no client.close() in it
CallToolCloses(response, key) == {}

\* the response of a request that ran into its timeout
TimeoutResponse == [threw |-> TRUE, isError |-> FALSE, has |-> "timeout"]

\* mutation: a request without answer is never given up
TimeoutNever == FALSE
\* createCallTool: client.callTool ends a request without answer after its
\* timeout (30 s in the debug build, the default of the MCP client otherwise)
TimeoutBounded == TRUE

\* createCallTool lines 84-103
CallTool(response, key) ==
    IF response.threw THEN CallToolCatch(response, key)
    ELSE IF response.isError THEN OnError(response, key)
    ELSE [failed |-> FALSE, via |-> "return", key |-> key]

(* ------------------------- schema conversion --------------------------- *)
\* McpTool.name
ToolNames == {"a", "b"}

\* the type keyword of a schema; mystery is a type no parser knows
SchemaTypes == {"none", "string", "number", "object", "array", "mystery"}
\* the $ref keyword of a schema
SchemaRefs == {"none", "#", "#/definitions/a"}

\* tool.inputSchema: missing, a boolean, or an object that carries either a $ref
\* or any of type, default and format
KeywordSchemas ==
    [form : {"object"}, ref : {"none"}, type : SchemaTypes,
     hasDefault : BOOLEAN, hasFormat : BOOLEAN]
RefSchemas ==
    [form : {"object"}, ref : SchemaRefs \ {"none"}, type : {"none"},
     hasDefault : {FALSE}, hasFormat : {FALSE}]
OtherSchemas ==
    [form : {"absent", "true", "false"}, ref : {"none"}, type : {"none"},
     hasDefault : {FALSE}, hasFormat : {FALSE}]
Schemas == KeywordSchemas \cup RefSchemas \cup OtherSchemas

McpTools == [name : ToolNames, hasDescription : BOOLEAN, inputSchema : Schemas]

\* Object.keys(schema).length === 0
NoKeys(schema) ==
    /\ schema.ref = "none"
    /\ schema.type = "none"
    /\ ~schema.hasDefault
    /\ ~schema.hasFormat

\* the message of an error: its wording and the detail put into it
Message(text, detail) == [text |-> text, detail |-> detail]
NoMessage == Message("", <<>>)

\* a compiled validator, or the error the compilation threw
Validator(typeName, accepts) ==
    [ok |-> TRUE, typeName |-> typeName, accepts |-> accepts, error |-> "none",
     message |-> NoMessage]
CompileError(class, message) ==
    [ok |-> FALSE, typeName |-> "none", accepts |-> "none", error |-> class,
     message |-> message]

\* parseRef: z.lazy(() => z.any()) for the root reference, a plain Error for
\* every other target
ParseRef(jsonSchema) ==
    IF jsonSchema.ref = "#"
    THEN Validator("ZodLazy", "anything")
    ELSE CompileError("Error", Message("Unsupported $ref", <<jsonSchema.ref>>))

\* JSON.stringify(jsonSchema): one string per character
Serialized(jsonSchema) ==
    IF "serialized" \in DOMAIN jsonSchema
    THEN jsonSchema.serialized
    ELSE <<"{", jsonSchema.type, "}">>

\* mutation: the whole serialized schema goes into the message
WholeSchema(serialized) == serialized
\* parseDefault line 15: substring(0, 100)
Excerpt(serialized) == SubSeq(serialized, 1, Min(Len(serialized), ExcerptCap))

\* parseDefault line 15: jsonSchema.type || JSON.stringify(jsonSchema).substring(0, 100)
SchemaType(jsonSchema) ==
    IF jsonSchema.type \notin {"none", ""}
    THEN <<jsonSchema.type>>
    ELSE Excerpt(Serialized(jsonSchema))

\* parseDefault: no parser is available for the schema
ParseDefault(jsonSchema) ==
    CompileError("UnsupportedSchemaError",
                 Message("Unsupported JSON schema type or structure", SchemaType(jsonSchema)))

\* convertJsonSchemaToZod: the choice of the parser
ConvertJsonSchemaToZod(schema) ==
    CASE schema.form \in {"absent", "true"} -> Validator("ZodAny", "anything")
      [] schema.form = "false" -> Validator("ZodNever", "nothing")
      [] schema.ref # "none" -> ParseRef(schema)
      [] schema.hasDefault \/ schema.hasFormat ->
            CompileError("UnsupportedSchemaError", Message("Unsupported keyword", <<>>))
      [] NoKeys(schema) -> Validator("ZodAny", "anything")
      [] schema.type = "mystery" -> ParseDefault(schema)
      [] OTHER -> Validator("Zod_" \o schema.type, "constrained")

\* mcpToolToDynamicTool lines 121-124
IsTrivialOriginalSchema(inputSchema) ==
    \/ inputSchema.form \in {"absent", "false"}
    \/ inputSchema.form = "true"
    \/ inputSchema.form = "object" /\ NoKeys(inputSchema)

\* the message of the NodeOperationError of mcpToolToDynamicTool
NoToolMessage == [toolName |-> "", text |-> "", original |-> NoMessage, schema |-> <<>>]

NotBuilt ==
    [kind |-> "pending", name |-> "", description |-> "", schema |-> CompileError("none", NoMessage),
     error |-> "none", cause |-> "none", message |-> NoToolMessage]
\* line 152: the original error is thrown again
Threw(class, cause) ==
    [kind |-> "threw", name |-> "", description |-> "", schema |-> CompileError("none", NoMessage),
     error |-> class, cause |-> cause, message |-> NoToolMessage]

\* mutation: the NodeOperationError says nothing about the original error
BareNodeOperationError(t, error) ==
    [kind |-> "threw", name |-> "", description |-> "", schema |-> CompileError("none", NoMessage),
     error |-> "NodeOperationError", cause |-> error.error,
     message |-> [toolName |-> t.name, text |-> "Schema conversion error",
                  original |-> NoMessage, schema |-> <<>>]]
\* lines 133-150: an UnsupportedSchemaError becomes a NodeOperationError that
\* names the tool, the original message and the input schema
SchemaConversionError(t, error) ==
    [kind |-> "threw", name |-> "", description |-> "", schema |-> CompileError("none", NoMessage),
     error |-> "NodeOperationError", cause |-> error.error,
     message |-> [toolName |-> t.name, text |-> "Schema conversion error",
                  original |-> error.message, schema |-> <<t.inputSchema>>]]

\* mcpToolToDynamicTool, lines 106-162
McpToolToDynamicTool(t) ==
    LET converted == ConvertJsonSchemaToZod(t.inputSchema)
        isActuallyAny == converted.ok /\ converted.typeName = "ZodAny"
        zodSchema == IF isActuallyAny /\ ~IsTrivialOriginalSchema(t.inputSchema)
                     THEN CompileError("UnsupportedSchemaError",
                                       Message("converted to z.any()", <<t.name>>))
                     ELSE converted
    IN  IF zodSchema.ok
        THEN [kind |-> "tool", name |-> t.name,
              description |-> IF t.hasDescription THEN "described" ELSE "",
              schema |-> zodSchema, error |-> "none", cause |-> "none",
              message |-> NoToolMessage]
        ELSE IF zodSchema.error = "UnsupportedSchemaError"
             THEN SchemaConversionError(t, zodSchema)
             ELSE Threw(zodSchema.error, zodSchema.error)

NoTool ==
    [name |-> "a", hasDescription |-> FALSE,
     inputSchema |-> [form |-> "absent", ref |-> "none", type |-> "none",
                      hasDefault |-> FALSE, hasFormat |-> FALSE]]

(* ---------------------------- parseDefault ----------------------------- *)
\* the schemas handed to parseDefault: their type keyword (none if there is
\* none, possibly the empty string) and their serialization
DefaultSchemas ==
    [type : {"none", "", "string", "object", "mystery", "custom_type"},
     serialized : {[k \in 1..n |-> ToString(k)] : n \in 2..MaxSerializedLen}]

NoSchema == [type |-> "none", serialized |-> <<>>]
NotThrown == CompileError("none", NoMessage)

(* --------------------------- toolkit build ----------------------------- *)
\* the tools of a catalogue all come with a description
CatalogueTools == {t \in McpTools : t.hasDescription}
Catalogues == UNION {[1..n -> CatalogueTools] : n \in 0..MaxCatalogue}

NotBuiltToolkit == [kind |-> "pending", tools |-> <<>>, errors |-> <<>>, error |-> "none"]

\* the toolkit builder over the tools k.. of the catalogue: a tool whose schema
\* conversion fails is left out and its error is kept; any other error ends
\* the build
RECURSIVE BuildToolkit(_, _, _, _)
BuildToolkit(c, k, built, errors) ==
    IF k > Len(c)
    THEN [kind |-> "built", tools |-> built, errors |-> errors, error |-> "none"]
    ELSE LET d == McpToolToDynamicTool(c[k])
         IN  IF d.kind = "tool"
             THEN BuildToolkit(c, k + 1, Append(built, d), errors)
             ELSE IF d.error = "NodeOperationError"
                  THEN BuildToolkit(c, k + 1, built, Append(errors, d))
                  ELSE [kind |-> "failed", tools |-> <<>>, errors |-> errors,
                        error |-> d.error]

(* ------------------------ recursive schemas ---------------------------- *)
\* a value for the schema { type: object, properties: { name: string,
\* child: { $ref: '#' } } }: one entry per nesting level, saying how the object
\* at that level stands to the root schema
LevelKinds == {"matches", "nameIsNumber", "notAnObject"}
Samples == UNION {[1..n -> LevelKinds] : n \in 1..MaxDepth}

NoSample == <<"matches">>

\* parseRef lines 13-19: the lazy validator of the root reference resolves to
\* z.any() whatever the root schema is
LazyRootReference(nested) == "accepted"

\* the validator of the schema above on a value: the object parser checks the
\* top level, the validator parseRef returned checks the child
ValidateSample(value) ==
    IF value[1] # "matches" THEN "rejected"
    ELSE IF Len(value) > 1 THEN LazyRootReference(Tail(value))
    ELSE "accepted"

(* -------------------------- getSelectedTools --------------------------- *)
\* includeTools and excludeTools: absent, or a list of names
NameLists == [present : {TRUE}, names : SUBSET ToolNames]
                 \cup {[present |-> FALSE, names |-> {}]}

Selections ==
    [mode : {"selected", "except", "all", "other"},
     includeTools : NameLists,
     excludeTools : NameLists,
     tools : UNION {[1..n -> ToolNames] : n \in 0..MaxCatalogue}]

NoSelection ==
    [mode |-> "all", includeTools |-> [present |-> FALSE, names |-> {}],
     excludeTools |-> [present |-> FALSE, names |-> {}], tools |-> <<>>]
NotSelected == [done |-> FALSE, tools |-> <<>>]

\* mutation: an include list is never taken as empty
IncludeNeverEmpty(includeTools) == FALSE
\* getSelectedTools line 49: !includeTools?.length
IncludeIsEmpty(includeTools) == ~includeTools.present \/ includeTools.names = {}

\* mutation: the except filter keeps the listed names
ExceptKeepsListed(name, except) == name \in except
\* getSelectedTools line 55: !except.has(tool.name)
ExceptKeeps(name, except) == name \notin except

\* getSelectedTools, lines 36-61
GetSelectedTools(mode, includeTools, excludeTools, tools_) ==
    CASE mode = "selected" ->
            IF IncludeIsEmpty(includeTools) THEN tools_
            ELSE SelectSeq(tools_, LAMBDA name : name \in includeTools.names)
      [] mode = "except" ->
            SelectSeq(tools_, LAMBDA name : ExceptKeeps(name, excludeTools.names))
      [] OTHER -> tools_

(* ---------------- createCallTool: the value an invoke returns ------------ *)
\* a field of the result of client.callTool: undefined, null, or a value
PayloadValues == {"undefined", "null", "value"}

\* what client.callTool does for one request: it rejects with an error, or it
\* resolves with a result whose isError, toolResult and content fields are
\* independent of each other
CallResults ==
    {[threw |-> TRUE, message |-> m, isError |-> "undefined",
      toolResult |-> "undefined", content |-> "undefined"] :
        m \in FieldValues({"m"})}
    \cup [threw : {FALSE}, message : {NotAString},
          isError : {"undefined", "false", "true"},
          toolResult : PayloadValues,
          content : {"undefined", "noText", "text"}]

\* the invokes under examination: the name the tool was created with, what the
\* remote call does, and what the onError callback returns
Invokes ==
    [name : ToolNames, response : CallResults, onErrorReturn : {"undefined", "handled"}]

NoInvoke ==
    [name |-> "", response |-> [threw |-> FALSE, message |-> NotAString,
                               isError |-> "undefined", toolResult |-> "undefined",
                               content |-> "undefined"],
     onErrorReturn |-> "undefined"]
NotInvoked ==
    [done |-> FALSE, requests |-> <<>>, via |-> "none", value |-> "",
     error |-> NotDescribed]

\* the thrown error or the isError result as getErrorDescriptionFromToolCall sees it
AsToolCallError(response) ==
    [isObject |-> TRUE,
     content |-> CASE response.content = "text" ->
                        [kind |-> "array",
                         items |-> <<[isObject |-> TRUE,
                                      text |-> [isString |-> TRUE, value |-> "t1"]]>>]
                   [] response.content = "noText" -> [kind |-> "array", items |-> <<>>]
                   [] OTHER -> [kind |-> "absent", items |-> <<>>],
     toolResult |-> IF response.toolResult = "value"
                    THEN [isString |-> TRUE, value |-> "r"]
                    ELSE NotAString,
     message |-> response.message]

\* mutation: a toolResult is returned only when it is truthy
ToolResultIsTruthy(toolResult) == toolResult \notin {"undefined", "null"}
\* createCallTool line 95: result.toolResult !== undefined
ToolResultIsDefined(toolResult) == toolResult # "undefined"

\* createCallTool lines 83-103: one client.callTool request, then the mapping of
\* what it gave
CreateCallTool(name, response, onErrorReturn) ==
    LET sent == <<name>>
        viaOnError == [done |-> TRUE, requests |-> sent, via |-> "onError",
                       value |-> onErrorReturn,
                       error |-> GetErrorDescriptionFromToolCall(AsToolCallError(response))]
    IN  IF response.threw THEN viaOnError
        ELSE IF response.isError = "true" THEN viaOnError
        ELSE IF ToolResultIsDefined(response.toolResult)
             THEN [done |-> TRUE, requests |-> sent, via |-> "toolResult",
                   value |-> response.toolResult, error |-> NotDescribed]
        ELSE IF response.content # "undefined"
             THEN [done |-> TRUE, requests |-> sent, via |-> "content",
                   value |-> response.content, error |-> NotDescribed]
        ELSE [done |-> TRUE, requests |-> sent, via |-> "result",
              value |-> "raw", error |-> NotDescribed]

(* ------------------- CanvasChat: restoreChatHistory -------------------- *)
\* the text of a chat message: where it was taken from (kind) and which part of
\* the data it shows (of)
ChatText(kind, of) == [kind |-> kind, of |-> of]
UndefinedText == ChatText("undefined", "")

\* a chat message, or undefined
ChatMessage(sender, text) == [sender |-> sender, text |-> text]
NoChatMessage == ChatMessage("none", UndefinedText)

\* the value at one path of the response data: nothing or a falsy value, a
\* non-empty string, or an object
PathValues == {"falsy", "string", "object"}

\* the json of the first item a run put out: undefined, an empty object, or an
\* object with keys
UndefinedData ==
    [kind |-> "undefined", output |-> "falsy", text |-> "falsy",
     responseText |-> "falsy", tools |-> "absent"]
ResponseDatas ==
    {UndefinedData, [UndefinedData EXCEPT !.kind = "empty"]}
    \cup [kind : {"object"}, output : PathValues, text : PathValues,
          responseText : {"falsy", "string"}, tools : {"absent", "array", "notArray"}]

\* one run of a node: ended with an error, or with data
ErrorRun == [error |-> "boom", json |-> UndefinedData]
TextRun ==
    [error |-> "none",
     json |-> [kind |-> "object", output |-> "string", text |-> "falsy",
               responseText |-> "falsy", tools |-> "absent"]]
TaskDatas == {ErrorRun} \cup {[error |-> "none", json |-> d] : d \in ResponseDatas}

\* resultData.runData[lastNodeExecuted]: no run, or runs of which the last one is
\* the one that counts
RunLists ==
    {<<>>} \cup {earlier \o <<last>> : earlier \in {<<>>, <<ErrorRun>>, <<TextRun>>},
                                       last \in TaskDatas}

\* the chat node of the workflow, and the json of the first item of its first run
ChatTriggers == {"none", "manualChatTrigger 1.0", "manualChatTrigger 1.1", "chatTrigger"}
TriggerRuns ==
    {[ran |-> FALSE, input |-> "undefined", chatInput |-> "undefined"]}
    \cup [ran : {TRUE}, input : {"undefined", "string"},
          chatInput : {"undefined", "string", "notAString"}]

\* the arguments of restoreChatHistory
ExecutionResponses ==
    [hasData : BOOLEAN,
     chatTrigger : ChatTriggers,
     triggerRun : TriggerRuns,
     lastNodeExecuted : {"undefined", "agent"},
     runs : RunLists,
     emptyText : {"undefined", "", "fallback"}]

NoExecution ==
    [hasData |-> FALSE, chatTrigger |-> "none",
     triggerRun |-> [ran |-> FALSE, input |-> "undefined", chatInput |-> "undefined"],
     lastNodeExecuted |-> "undefined", runs |-> <<>>, emptyText |-> "undefined"]
NotRestored == [done |-> FALSE, messages |-> <<>>]

\* getInputKey, lines 12-21
GetInputKey(node) == IF node = "manualChatTrigger 1.0" THEN "input" ELSE "chatInput"

\* extractChatInput, lines 23-46
ExtractChatInput(chatTrigger, triggerRun) ==
    IF chatTrigger = "none" THEN NoChatMessage
    ELSE LET inputKey == GetInputKey(chatTrigger)
             message == IF inputKey = "input" THEN triggerRun.input
                        ELSE triggerRun.chatInput
         IN  IF ~triggerRun.ran \/ message # "string" THEN NoChatMessage
             ELSE ChatMessage("user", ChatText("input", inputKey))

\* mutation: the text path is looked at before the output path
PathsTextFirst == <<"text", "output", "response.text">>
\* extractResponseText line 90
Paths == <<"output", "text", "response.text">>

\* get(responseData, path)
Get(responseData, path) ==
    CASE path = "output" -> responseData.output
      [] path = "text" -> responseData.text
      [] OTHER -> responseData.responseText

\* extractResponseText, lines 84-120
ExtractResponseText(responseData) ==
    IF responseData.kind \in {"undefined", "empty"} THEN UndefinedText
    ELSE LET matched == {n \in DOMAIN Paths : Get(responseData, Paths[n]) # "falsy"}
         IN  IF matched = {}
             THEN ChatText("json", IF responseData.tools = "notArray"
                                   THEN "responseData without tools"
                                   ELSE "responseData")
             ELSE LET matchedPath == Paths[CHOOSE n \in matched : \A m \in matched : n <= m]
                  IN  IF Get(responseData, matchedPath) = "object"
                      THEN ChatText("fenced json", matchedPath)
                      ELSE ChatText("string", matchedPath)

\* emptyText as a text: undefined and the empty string are falsy
EmptyText(emptyText) ==
    IF emptyText = "fallback" THEN ChatText("emptyText", "fallback") ELSE UndefinedText

\* extractBotResponse, lines 48-81
ExtractBotResponse(lastNodeExecuted, runs, emptyText) ==
    IF lastNodeExecuted = "undefined" THEN NoChatMessage
    ELSE LET nodeResponseData ==
                 IF runs = <<>> THEN [error |-> "none", json |-> UndefinedData]
                 ELSE runs[Len(runs)]
         IN  IF nodeResponseData.error # "none"
             THEN ChatMessage("bot", ChatText("[ERROR: ]", nodeResponseData.error))
             ELSE LET extracted == ExtractResponseText(nodeResponseData.json)
                      text == IF extracted = UndefinedText THEN EmptyText(emptyText)
                              ELSE extracted
                  IN  IF text = UndefinedText THEN NoChatMessage
                      ELSE ChatMessage("bot", text)

\* restoreChatHistory, lines 122-141
RestoreChatHistory(data) ==
    IF ~data.hasData THEN <<>>
    ELSE LET userMessage == ExtractChatInput(data.chatTrigger, data.triggerRun)
             botMessage == ExtractBotResponse(data.lastNodeExecuted, data.runs,
                                              data.emptyText)
         IN  (IF userMessage # NoChatMessage THEN <<userMessage>> ELSE <<>>)
             \o (IF botMessage # NoChatMessage THEN <<botMessage>> ELSE <<>>)

(* ------------------------------ at rest -------------------------------- *)
ErrIdle == callError = NoToolCallError /\ errorDescription = NotDescribed
ToolIdle == tool = NoTool /\ dynamicTool = NotBuilt
DefaultIdle == schemaInput = NoSchema /\ thrown = NotThrown
ToolkitIdle == catalogue = <<>> /\ toolkit = NotBuiltToolkit
RefIdle == sample = NoSample /\ verdict = "pending"
SelectIdle == selection = NoSelection /\ selectedTools = NotSelected
CallIdle == callInput = NoInvoke /\ callReturn = NotInvoked
ChatIdle == workflowExecutionData = NoExecution /\ chatHistory = NotRestored

\* no utility function is under examination
UtilIdle ==
    /\ ErrIdle
    /\ ToolIdle
    /\ DefaultIdle
    /\ ToolkitIdle
    /\ RefIdle
    /\ SelectIdle
    /\ CallIdle
    /\ ChatIdle

LoadIdle ==
    /\ lpc = "idle"
    /\ headers = [threw |-> FALSE, headers |-> {}]
    /\ authentication = "none"
    /\ credential = "nothing"
    /\ client = "none"
    /\ nConnect = 0
    /\ nClose = 0
    /\ cursor = 0
    /\ served = <<>>
    /\ acc = <<>>
    /\ lresult = [kind |-> "running", value |-> <<>>]
    /\ sseEndpoint = [scheme |-> "none", wellFormed |-> FALSE]
    /\ connResult = [ok |-> FALSE, type |-> "none", error |-> "none"]
    /\ transport = [scheme |-> "none", wellFormed |-> FALSE]
    /\ requests = <<>>

Init ==
    /\ LoadIdle
    /\ UtilIdle
    /\ lastCall = NoCall
    /\ pc = "start"
    /\ cache = [k \in Keys |-> "Absent"]
    /\ attempts = [k \in Keys |-> 0]
    /\ waiting = {}
    /\ got = [k \in Keys |-> "none"]
    /\ opened = [k \in Keys |-> {}]
    /\ tools = <<>>
    /\ closeFunctions = <<>>
    /\ nItems \in 0..MaxItems
    /\ batchSize = 1
    /\ delayBetweenBatches = 0
    /\ continueOnFail \in BOOLEAN
    /\ i = 0
    /\ itemState = [j \in Items |-> "idle"]
    /\ itemTools = [j \in Items |-> <<>>]
    /\ inflight = [j \in Items |-> 0]
    /\ nInvokes = 0
    /\ returnData = <<>>
    /\ pending = NoErr
    /\ outcome = [kind |-> "running", err |-> NoErr]
    /\ closeIdx = 0
    /\ closeCalls = [k \in Keys |-> 0]
    /\ closeLog = <<>>
    /\ closeThrew = {}
    /\ cancelled = FALSE

\* line 38: the optional output parser is fetched before anything is acquired
OutputParserOk ==
    /\ pc = "start"
    /\ pc' = "getTools"
    /\ UNCHANGED <<loadVars, utilVars, lastCall, cacheVars, opened, tools, closeFunctions, paramVars, i, itemVars,
                   returnData, pending, outcome, closeVars, cancelled>>

OutputParserFail ==
    /\ pc = "start"
    /\ pc' = "done"
    /\ outcome' = [kind |-> "threw", err |-> Err("outputParser")]
    /\ UNCHANGED <<loadVars, utilVars, lastCall, cacheVars, opened, tools, closeFunctions, paramVars, i, itemVars,
                   returnData, pending, closeVars, cancelled>>

\* getOrCreate on an Absent key: the caller becomes the one that runs the factory
FactoryStart(k) ==
    /\ pc = "getTools"
    /\ cache[k] = "Absent"
    /\ attempts[k] < MaxAttempts
    /\ cache' = [cache EXCEPT ![k] = "Populating"]
    /\ attempts' = [attempts EXCEPT ![k] = @ + 1]
    /\ UNCHANGED <<loadVars, utilVars, lastCall, pc, waiting, got, opened, tools, closeFunctions, paramVars, i, itemVars,
                   returnData, pending, outcome, closeVars, cancelled>>

\* getOrCreate on a Populating key: the caller waits for the running factory
GetOrCreateWait(k) ==
    /\ pc = "getTools"
    /\ cache[k] = "Populating"
    /\ k \notin waiting
    /\ waiting' = waiting \cup {k}
    /\ UNCHANGED <<loadVars, utilVars, lastCall, pc, cache, attempts, got, opened, tools, closeFunctions, paramVars, i,
                   itemVars, returnData, pending, outcome, closeVars, cancelled>>

\* getOrCreate on a Ready key: the cached entry is returned
GetCached(k) ==
    /\ pc = "getTools"
    /\ cache[k] = "Ready"
    /\ got' = [got EXCEPT ![k] = "cached"]
    /\ UNCHANGED <<loadVars, utilVars, lastCall, pc, cache, attempts, waiting, opened, tools, closeFunctions,
                   paramVars, i, itemVars, returnData, pending, outcome, closeVars,
                   cancelled>>

\* the factory (Connection Provider + Toolkit Builder) succeeded: the entry is stored
FactorySucceed(k) ==
    /\ pc = "getTools"
    /\ cache[k] = "Populating"
    /\ cache' = [cache EXCEPT ![k] = "Ready"]
    /\ opened' = [opened EXCEPT ![k] = @ \cup {Cardinality(@) + 1}]
    /\ waiting' = waiting \ {k}
    /\ got' = [got EXCEPT ![k] = "entry"]
    /\ UNCHANGED <<loadVars, utilVars, lastCall, pc, attempts, tools, closeFunctions, paramVars, i, itemVars,
                   returnData, pending, outcome, closeVars, cancelled>>

\* the factory failed: nothing is stored, the error goes to the caller(s)
FactoryFail(k) ==
    /\ pc = "getTools"
    /\ cache[k] = "Populating"
    /\ cache' = [cache EXCEPT ![k] = "Absent"]
    /\ waiting' = waiting \ {k}
    /\ got' = [got EXCEPT ![k] = "error"]
    /\ UNCHANGED <<loadVars, utilVars, lastCall, pc, attempts, opened, tools, closeFunctions, paramVars, i, itemVars,
                   returnData, pending, outcome, closeVars, cancelled>>

\* line 41/62: getTools returns the toolkits and closers of the Ready entries
GetToolsReturn ==
    /\ pc = "getTools"
    /\ \A k \in Keys : cache[k] # "Populating"
    /\ tools' = ReadyEntries(1)
    /\ closeFunctions' = ReadyEntries(1)
    /\ attempts' = [k \in Keys |-> 0]
    /\ pc' = "prepare"
    /\ UNCHANGED <<loadVars, utilVars, lastCall, cache, waiting, got, opened, paramVars, i, itemVars, returnData, pending,
                   outcome, closeVars, cancelled>>

(* ------------------- toolsAgentExecute: preparation -------------------- *)
\* lines 108-115: batching options, memory and chat model, all before the try block
PrepareOk ==
    /\ pc = "prepare"
    /\ batchSize' \in 0..MaxBatchSize
    /\ delayBetweenBatches' \in {0, 1}
    /\ i' = 0
    /\ pc' = "loop"
    /\ UNCHANGED <<loadVars, utilVars, lastCall, cacheVars, opened, tools, closeFunctions, nItems, continueOnFail,
                   itemVars, returnData, pending, outcome, closeVars, cancelled>>

\* lines 114-115: getOptionalMemory or getChatModel throws; the try block at
\* line 117 has not been entered, so the finally block does not run
PrepareFail ==
    /\ pc = "prepare"
    /\ \E what \in {"memory", "model"} :
          outcome' = [kind |-> "threw", err |-> Err(what)]
    /\ pc' = "done"
    /\ UNCHANGED <<loadVars, utilVars, lastCall, cacheVars, opened, tools, closeFunctions, paramVars, i, itemVars,
                   returnData, pending, closeVars, cancelled>>

(* ------------------- toolsAgentExecute: batch loop --------------------- *)
\* line 119: items.slice(i, i + batchSize)
Batch == {j \in Items : i <= j /\ j < i + batchSize /\ j < nItems}

Settled(j) == itemState[j] \in {"fulfilled", "fulfilledBadJson", "rejected"}

ToolsRefetchedForItem(j) ==
    [t \in DOMAIN tools |-> [key |-> tools[t].key, handle |-> tools[t].handle + j + 1]]

\* lines 153-176: every item builds its agent and executor from the same const tools
ToolsForItem(j) == tools

AnySettledRejected(b) ==
    \/ \A j \in b : Settled(j)
    \/ \E j \in b : itemState[j] = "rejected"

\* line 190: await Promise.allSettled(batchPromises)
AllSettled(b) == \A j \in b : Settled(j)

\* lines 118-120: the loop condition holds, the batch is sliced and its promises start
BatchStart ==
    /\ pc = "loop"
    /\ i < nItems
    /\ itemState' = [j \in Items |-> IF j \in Batch THEN "running" ELSE itemState[j]]
    /\ itemTools' = [j \in Items |-> IF j \in Batch THEN ToolsForItem(j) ELSE itemTools[j]]
    /\ opened' = [k \in Keys |->
                    opened[k] \cup {itemTools'[j][t].handle :
                                      <<j, t>> \in {p \in Batch \X (1..NumKeys) :
                                                      /\ p[2] \in DOMAIN itemTools'[p[1]]
                                                      /\ itemTools'[p[1]][p[2]].key = k}}]
    /\ pc' = "await"
    /\ UNCHANGED <<loadVars, utilVars, lastCall, cacheVars, tools, closeFunctions, paramVars, i, inflight, nInvokes,
                   returnData, pending, outcome, closeVars, cancelled>>

\* lines 81-104 of the MCP utils (createCallTool), reached from executor.invoke at
\* line 179: the item's reasoning loop calls a tool through its handle
ItemInvokeStart(j, t) ==
    /\ pc = "await"
    /\ itemState[j] = "running"
    /\ inflight[j] = 0
    /\ ~cancelled
    /\ t \in DOMAIN itemTools[j]
    /\ nInvokes < MaxCalls
    /\ inflight' = [inflight EXCEPT ![j] = t]
    /\ nInvokes' = nInvokes + 1
    /\ UNCHANGED <<loadVars, utilVars, lastCall, pc, cacheVars, opened, tools, closeFunctions, paramVars, i, itemState,
                   itemTools, returnData, pending, outcome, closeVars, cancelled>>

\* the remote call answers, fails or times out: the result goes back to the loop
ItemInvokeEnd(j) ==
    /\ itemState[j] = "running"
    /\ inflight[j] # 0
    /\ \E response \in CallResponses :
          /\ lastCall' = CallTool(response, itemTools[j][inflight[j]].key)
          /\ closeCalls' =
                [k \in Keys |->
                    IF k \in CallToolCloses(response, itemTools[j][inflight[j]].key)
                    THEN closeCalls[k] + 1
                    ELSE closeCalls[k]]
    /\ inflight' = [inflight EXCEPT ![j] = 0]
    /\ UNCHANGED <<loadVars, utilVars, pc, cacheVars, opened, tools, closeFunctions, paramVars, i, itemState,
                   itemTools, nInvokes, returnData, pending, outcome, closeIdx, closeLog,
                   closeThrew, cancelled>>

\* the request of the call in flight runs into its timeout
ItemInvokeTimeout(j) ==
    /\ TimeoutBounded
    /\ ItemInvokeEnd(j)
    /\ lastCall' = CallTool(TimeoutResponse, itemTools[j][inflight[j]].key)

\* line 179: executor.invoke resolves; with memory and an output parser connected
\* its output is parsed at lines 208-213, and jsonParse throws on output that is
\* no JSON
ItemFulfil(j) ==
    /\ pc = "await"
    /\ itemState[j] = "running"
    /\ inflight[j] = 0
    /\ ~cancelled
    /\ \E parses \in BOOLEAN :
          itemState' = [itemState EXCEPT ![j] =
                           IF parses THEN "fulfilled" ELSE "fulfilledBadJson"]
    /\ UNCHANGED <<loadVars, utilVars, lastCall, pc, cacheVars, opened, tools, closeFunctions, paramVars, i, itemTools,
                   inflight, nInvokes, returnData, pending, outcome, closeVars, cancelled>>

\* lines 129-131, 141, 179: the input is empty, the prompt cannot be prepared, the
\* executor fails or the cancel signal aborts it
ItemReject(j) ==
    /\ pc = "await"
    /\ itemState[j] = "running"
    /\ inflight[j] = 0
    /\ itemState' = [itemState EXCEPT ![j] = "rejected"]
    /\ UNCHANGED <<loadVars, utilVars, lastCall, pc, cacheVars, opened, tools, closeFunctions, paramVars, i, itemTools,
                   inflight, nInvokes, returnData, pending, outcome, closeVars, cancelled>>

\* mutation: the error thrown is the reason of the last rejected result of the batch
LastRejectionThrown(j, hi) ==
    ItemErr(CHOOSE m \in j..(hi - 1) :
                /\ itemState[m] = "rejected"
                /\ \A n \in (m + 1)..(hi - 1) : itemState[n] # "rejected")
\* lines 194-202: the callback reaches the rejected result j and throws its reason,
\* wrapped in a NodeOperationError; forEach does not go on
RejectionThrown(j, hi) == ItemErr(j)

\* lines 192-229: batchResults.forEach over the items j..hi-1 of the batch
RECURSIVE Collect(_, _, _)
Collect(j, hi, rd) ==
    IF j >= hi THEN [data |-> rd, thrown |-> NoErr]
    ELSE IF itemState[j] = "rejected"
         THEN IF continueOnFail
              THEN Collect(j + 1, hi, Append(rd, [kind |-> "error", item |-> j]))
              ELSE [data |-> rd, thrown |-> RejectionThrown(j, hi)]
    ELSE IF itemState[j] = "fulfilledBadJson"
         THEN [data |-> rd, thrown |-> ParseErr(j)]
    ELSE IF itemState[j] = "fulfilled"
         THEN Collect(j + 1, hi, Append(rd, [kind |-> "json", item |-> j]))
    ELSE Collect(j + 1, hi, rd)

\* mutation: the delay is due after every batch, the last one included
DelayAfterEveryBatch == delayBetweenBatches > 0
\* line 231: if (i + batchSize < items.length && delayBetweenBatches > 0)
DelayDue == i + batchSize < nItems /\ delayBetweenBatches > 0

\* lines 190-234: the batch has settled; its results are collected, and the loop
\* goes on, sleeps, or leaves the try block by a throw
BatchSettled ==
    /\ pc = "await"
    /\ AllSettled(Batch)
    /\ LET res == Collect(i, Min(i + batchSize, nItems), returnData) IN
          /\ returnData' = res.data
          /\ IF res.thrown # NoErr
             THEN /\ pending' = res.thrown
                  /\ pc' = "finally"
                  /\ i' = i
             ELSE /\ pending' = pending
                  /\ IF DelayDue
                     THEN pc' = "sleep" /\ i' = i
                     ELSE pc' = "loop" /\ i' = i + batchSize
    /\ UNCHANGED <<loadVars, utilVars, lastCall, cacheVars, opened, tools, closeFunctions, paramVars, itemVars,
                   outcome, closeVars, cancelled>>

\* line 232: await sleep(delayBetweenBatches), then i += batchSize
Sleep ==
    /\ pc = "sleep"
    /\ i' = i + batchSize
    /\ pc' = "loop"
    /\ UNCHANGED <<loadVars, utilVars, lastCall, cacheVars, opened, tools, closeFunctions, paramVars, itemVars,
                   returnData, pending, outcome, closeVars, cancelled>>

\* line 118: the loop condition fails; the try block completes normally
LoopExit ==
    /\ pc = "loop"
    /\ i >= nItems
    /\ pc' = "finally"
    /\ UNCHANGED <<loadVars, utilVars, lastCall, cacheVars, opened, tools, closeFunctions, paramVars, i, itemVars,
                   returnData, pending, outcome, closeVars, cancelled>>

(* ------------------- toolsAgentExecute: teardown ----------------------- *)
AllProviders == [k \in Keys |-> [key |-> k, handle |-> 1]]

\* line 239: for (const close of closeFunctions)
CloseTargets == closeFunctions

CloseErrorUncaught == FALSE

\* lines 243-245: catch (e) around each await close()
CloseErrorCaught == TRUE

\* lines 239-246: one turn of the finally loop
CloseStep ==
    /\ pc = "finally"
    /\ closeIdx < Len(CloseTargets)
    /\ LET k == CloseTargets[closeIdx + 1].key IN
        \E throws \in BOOLEAN :
          /\ closeCalls' = [closeCalls EXCEPT ![k] = @ + 1]
          /\ cache' = [cache EXCEPT ![k] = "Closed"]
          /\ closeIdx' = closeIdx + 1
          /\ closeThrew' = IF throws THEN closeThrew \cup {k} ELSE closeThrew
          /\ IF throws /\ ~CloseErrorCaught
             THEN /\ closeLog' = closeLog
                  /\ outcome' = [kind |-> "threw", err |-> Err("close")]
                  /\ pc' = "done"
             ELSE /\ closeLog' = Append(closeLog,
                                        [key |-> k,
                                         result |-> IF throws THEN "error" ELSE "closed"])
                  /\ outcome' = outcome
                  /\ pc' = "finally"
    /\ UNCHANGED <<loadVars, utilVars, lastCall, attempts, waiting, got, opened, tools, closeFunctions,
                   paramVars, i, itemVars, returnData, pending, cancelled>>

\* lines 247-249: finally completes; the try block's completion takes effect
FinallyExit ==
    /\ pc = "finally"
    /\ closeIdx >= Len(CloseTargets)
    /\ outcome' = IF pending = NoErr
                  THEN [kind |-> "returned", err |-> NoErr]
                  ELSE [kind |-> "threw", err |-> pending]
    /\ pc' = "done"
    /\ UNCHANGED <<loadVars, utilVars, lastCall, cacheVars, opened, tools, closeFunctions, paramVars, i, itemVars,
                   returnData, pending, closeVars, cancelled>>

\* the execution is cancelled from outside (getExecutionCancelSignal, line 186)
Cancel ==
    /\ pc # "done"
    /\ ~cancelled
    /\ cancelled' = TRUE
    /\ UNCHANGED <<loadVars, utilVars, lastCall, pc, cacheVars, opened, tools, closeFunctions, paramVars, i, itemVars,
                   returnData, pending, outcome, closeVars>>

(* ============ catalogue lookup: getTools of McpClientTool/loadOptions =========== *)
\* the tools field of a listTools response: an array of tools, or something that
\* is no array (missing, null, an object)
PageTools ==
    {[isArray |-> TRUE, tools |-> t] :
        t \in UNION {[1..n -> ToolNames] : n \in 0..MaxPageLen}}
    \cup {[isArray |-> FALSE, tools |-> <<"notAnArray">>]}

\* the nextCursor field of a listTools response; 0 stands for a missing or empty
\* one, which line 25 takes as the end of the catalogue
Cursors == 0..MaxCursor

AuthModes == {"none", "headerAuth", "bearerAuth", "other"}

\* how ctx.getCredentials ends: it rejects, resolves with nothing, or resolves
\* with the credential
CredentialLookups == {"rejected", "nothing", "resolved"}

\* the credentials configured for the node
HeaderCredential == [name |-> "X-Api-Key", value |-> "secret"]
BearerCredential == [token |-> "tok"]

NoHeaders == [threw |-> FALSE, headers |-> {}]

\* mutation: a rejected credential lookup is not caught
LookupUncaught(lookup) == lookup
\* getAuthHeaders lines 245 and 254: .catch(() => null)
CatchToNull(lookup) == IF lookup = "rejected" THEN "nothing" ELSE lookup

\* getAuthHeaders, lines 237-265
AuthHeaders(authentication_, lookup) ==
    CASE authentication_ = "headerAuth" ->
            LET header == CatchToNull(lookup)
            IN  IF header = "rejected" THEN [threw |-> TRUE, headers |-> {}]
                ELSE IF header = "nothing" THEN NoHeaders
                ELSE [threw |-> FALSE,
                      headers |-> {[name |-> HeaderCredential.name,
                                    value |-> HeaderCredential.value]}]
      [] authentication_ = "bearerAuth" ->
            LET result == CatchToNull(lookup)
            IN  IF result = "rejected" THEN [threw |-> TRUE, headers |-> {}]
                ELSE IF result = "nothing" THEN NoHeaders
                ELSE [threw |-> FALSE,
                      headers |-> {[name |-> "Authorization",
                                    value |-> "Bearer " \o BearerCredential.token]}]
      [] OTHER -> NoHeaders

\* sseEndpoint: its scheme prefix (none if it has none) and whether the rest parses
Endpoints == [scheme : {"none", "http", "https", "ftp"}, wellFormed : BOOLEAN]

NoTransport == [scheme |-> "none", wellFormed |-> FALSE]

\* mutation: the endpoint is used as it was typed
AcceptUnvalidated(input) == [ok |-> TRUE, url |-> input]

\* normalizeAndValidateUrl: https:// is prefixed unless the input starts with
\* http:// or https://, then the URL constructor decides
NormalizeAndValidateUrl(input) ==
    LET withProtocol == IF input.scheme \in {"http", "https"}
                        THEN input
                        ELSE [scheme |-> "https", wellFormed |-> input.wellFormed]
    IN  [ok |-> withProtocol.wellFormed, url |-> withProtocol]

\* the Result values of connectMcpClient
NoResult == [ok |-> FALSE, type |-> "none", error |-> "none"]
ResultOk == [ok |-> TRUE, type |-> "client", error |-> "none"]
\* line 208
InvalidUrl == [ok |-> FALSE, type |-> "invalid_url", error |-> "TypeError"]
\* what client.connect can fail with
HandshakeErrors == {"refused", "timeout"}
\* mutation: the catch block lets the handshake error escape
HandshakeFailureThrown(cause) == [ok |-> FALSE, type |-> "thrown", error |-> cause]
\* lines 232-234: whatever the try block throws becomes a connection error value
HandshakeFailure(cause) == [ok |-> FALSE, type |-> "connection", error |-> cause]

\* mutation: the page's tools are taken as they come
CurrentToolsUnchecked(response) == response.tools
\* getAllTools line 22
CurrentTools(response) == IF response.isArray THEN response.tools ELSE <<>>

\* mutation: names already listed are left out
ConcatDeduplicated(currentTools, nextTools) ==
    currentTools \o SelectSeq(nextTools,
                              LAMBDA name : \A k \in DOMAIN currentTools :
                                               currentTools[k] # name)
\* mutation: the following pages are put in front
ConcatReversed(currentTools, nextTools) == nextTools \o currentTools
\* getAllTools line 29
Concat(currentTools, nextTools) == currentTools \o nextTools

\* mutation: the recursive call starts over without a cursor
NoCursorArg(nextCursor) == 0
\* getAllTools line 27: the cursor argument of the recursive call
NextCursorArg(nextCursor) == nextCursor

\* getAllTools lines 22-33 over the responses the calls received: the call for
\* page k returns its own tools followed by what the call for page k + 1 returned
RECURSIVE GetAllTools(_, _)
GetAllTools(responses, k) ==
    IF responses[k].nextCursor # 0
    THEN Concat(CurrentTools(responses[k].tools), GetAllTools(responses, k + 1))
    ELSE CurrentTools(responses[k].tools)

\* what the pending getAllTools calls hold when the call for page k + 1 is out
RECURSIVE HeldTools(_, _)
HeldTools(responses, k) ==
    IF k > Len(responses) THEN <<>>
    ELSE Concat(CurrentTools(responses[k].tools), HeldTools(responses, k + 1))

\* mutation: the failure is swallowed and the tools held so far are returned
ListToolsRejectedKeepsHeld(held) == [kind |-> "returned", value |-> held]
\* getAllTools lines 20 and 27: the awaits are in no try block, so the rejection
\* passes through every pending call and through getTools
ListToolsRejected(held) == [kind |-> "threw", value |-> <<"listTools">>]

LoadInit ==
    /\ lpc = "start"
    /\ headers = [threw |-> FALSE, headers |-> {}]
    /\ authentication = "none"
    /\ credential = "nothing"
    /\ client = "none"
    /\ nConnect = 0
    /\ nClose = 0
    /\ cursor = 0
    /\ served = <<>>
    /\ acc = <<>>
    /\ lresult = [kind |-> "running", value |-> <<>>]
    /\ sseEndpoint = NoTransport
    /\ connResult = NoResult
    /\ transport = NoTransport
    /\ requests = <<>>

\* loadOptions.ts lines 11-14: the parameters are read, then
\* await getAuthHeaders(this, authentication)
LoadAuth ==
    /\ lpc = "start"
    /\ authentication' \in AuthModes
    /\ credential' \in CredentialLookups
    /\ headers' = AuthHeaders(authentication', credential')
    /\ sseEndpoint' \in Endpoints
    /\ IF headers'.threw
       THEN /\ lpc' = "done"
            /\ lresult' = [kind |-> "threw", value |-> <<"getCredentials">>]
       ELSE /\ lpc' = "connect"
            /\ lresult' = lresult
    /\ UNCHANGED <<execVars, utilVars, client, nConnect, nClose, cursor, served, acc,
                   connResult, transport, requests>>

\* loadOptions.ts lines 15-24 and connectMcpClient: an invalid URL or a failed
\* handshake comes back as an error result, and getTools throws
LoadConnect ==
    /\ lpc = "connect"
    /\ LET endpoint == NormalizeAndValidateUrl(sseEndpoint)
       IN  IF ~endpoint.ok
           THEN /\ connResult' = InvalidUrl
                /\ lresult' = [kind |-> "threw", value |-> <<"Could not connect">>]
                /\ lpc' = "done"
                /\ UNCHANGED <<client, nConnect, transport>>
           ELSE /\ transport' = endpoint.url
                /\ nConnect' = nConnect + 1
                /\ \/ /\ connResult' = ResultOk
                      /\ client' = "open"
                      /\ lpc' = "list"
                      /\ lresult' = lresult
                   \/ \E cause \in HandshakeErrors :
                         /\ connResult' = HandshakeFailure(cause)
                         /\ client' = client
                         /\ lpc' = "done"
                         /\ lresult' = IF connResult'.type = "thrown"
                                       THEN [kind |-> "threw", value |-> <<cause>>]
                                       ELSE [kind |-> "threw",
                                             value |-> <<"Could not connect">>]
    /\ UNCHANGED <<execVars, utilVars, headers, authentication, credential, nClose, cursor, served, acc, sseEndpoint,
                   requests>>

\* getAllTools lines 20-33: one listTools request; the listing goes on with the
\* cursor of the response while there is one, and the last call's return starts
\* the concatenations of the pending calls
LoadListPage ==
    /\ lpc = "list"
    /\ \E page \in PageTools, nextCursor \in Cursors :
          /\ (nextCursor # 0 => Len(served) + 1 < MaxPages)
          /\ requests' = Append(requests, cursor)
          /\ served' = Append(served, [cursor |-> cursor, tools |-> page,
                                       nextCursor |-> nextCursor])
          /\ IF nextCursor # 0
             THEN /\ cursor' = NextCursorArg(nextCursor)
                  /\ lpc' = "list"
                  /\ acc' = acc
             ELSE /\ cursor' = cursor
                  /\ lpc' = "map"
                  /\ acc' = GetAllTools(served', 1)
    /\ UNCHANGED <<execVars, utilVars, headers, authentication, credential, client, nConnect, nClose, lresult, sseEndpoint,
                   connResult, transport>>

\* getAllTools line 20: the request fails at the transport
LoadListFail ==
    /\ lpc = "list"
    /\ requests' = Append(requests, cursor)
    /\ lresult' = ListToolsRejected(HeldTools(served, 1))
    /\ lpc' = "done"
    /\ UNCHANGED <<execVars, utilVars, headers, authentication, credential, client, nConnect, nClose, cursor, served, acc,
                   sseEndpoint, connResult, transport>>

\* loadOptions.ts lines 36-41: the options are returned, one per listed tool
LoadReturn ==
    /\ lpc = "map"
    /\ lresult' = [kind |-> "returned", value |-> acc]
    /\ lpc' = "done"
    /\ UNCHANGED <<execVars, utilVars, headers, authentication, credential, client, nConnect, nClose, cursor, served, acc,
                   sseEndpoint, connResult, transport, requests>>

LoadNext ==
    \/ LoadAuth
    \/ LoadConnect
    \/ LoadListPage
    \/ LoadListFail
    \/ LoadReturn

Next ==
    \/ OutputParserOk
    \/ OutputParserFail
    \/ \E k \in Keys : FactoryStart(k)
    \/ \E k \in Keys : GetOrCreateWait(k)
    \/ \E k \in Keys : GetCached(k)
    \/ \E k \in Keys : FactorySucceed(k)
    \/ \E k \in Keys : FactoryFail(k)
    \/ GetToolsReturn
    \/ PrepareOk
    \/ PrepareFail
    \/ BatchStart
    \/ \E j \in Items, t \in 1..NumKeys : ItemInvokeStart(j, t)
    \/ \E j \in Items : ItemInvokeEnd(j)
    \/ \E j \in Items : ItemFulfil(j)
    \/ \E j \in Items : ItemReject(j)
    \/ BatchSettled
    \/ Sleep
    \/ LoopExit
    \/ CloseStep
    \/ FinallyExit
    \/ Cancel

Spec == Init /\ [][Next]_vars

\* what keeps toolsAgentExecute going: every await resumes once what it waits
\* for is there, a request without answer runs into its timeout, and an
\* executor ends after maxIterations steps at the latest (line 175)
Fairness ==
    /\ WF_vars(OutputParserOk \/ OutputParserFail)
    /\ \A k \in Keys : WF_vars(FactorySucceed(k) \/ FactoryFail(k))
    /\ WF_vars(GetToolsReturn)
    /\ WF_vars(PrepareOk \/ PrepareFail)
    /\ WF_vars(BatchStart)
    /\ \A j \in Items : WF_vars(ItemInvokeTimeout(j))
    /\ \A j \in Items : WF_vars(ItemFulfil(j) \/ ItemReject(j))
    /\ WF_vars(BatchSettled)
    /\ WF_vars(Sleep)
    /\ WF_vars(LoopExit)
    /\ WF_vars(CloseStep)
    /\ WF_vars(FinallyExit)

SpecLive == Spec /\ Fairness

\* the execution side at rest while a catalogue lookup runs
ExecIdle ==
    /\ pc = "done"
    /\ cache = [k \in Keys |-> "Absent"]
    /\ attempts = [k \in Keys |-> 0]
    /\ waiting = {}
    /\ got = [k \in Keys |-> "none"]
    /\ opened = [k \in Keys |-> {}]
    /\ tools = <<>>
    /\ closeFunctions = <<>>
    /\ nItems = 0
    /\ batchSize = 1
    /\ delayBetweenBatches = 0
    /\ continueOnFail = FALSE
    /\ i = 0
    /\ itemState = [j \in Items |-> "idle"]
    /\ itemTools = [j \in Items |-> <<>>]
    /\ inflight = [j \in Items |-> 0]
    /\ nInvokes = 0
    /\ returnData = <<>>
    /\ pending = NoErr
    /\ outcome = [kind |-> "returned", err |-> NoErr]
    /\ closeIdx = 0
    /\ closeCalls = [k \in Keys |-> 0]
    /\ closeLog = <<>>
    /\ closeThrew = {}
    /\ cancelled = FALSE
    /\ lastCall = NoCall

LoadOptionsInit == ExecIdle /\ LoadInit /\ UtilIdle

SpecLoadOptions == LoadOptionsInit /\ [][LoadNext]_vars

\* getErrorDescriptionFromToolCall is applied to the value under examination
DescribeError ==
    /\ errorDescription = NotDescribed
    /\ errorDescription' = GetErrorDescriptionFromToolCall(callError)
    /\ UNCHANGED <<execVars, loadVars, callVars, chatVars, callError, toolVars, defaultVars, toolkitVars,
                   refVars, selectVars>>

ErrorDescriptionInit ==
    /\ ExecIdle
    /\ LoadIdle
    /\ CallIdle
    /\ ChatIdle
    /\ callError \in ToolCallErrors
    /\ errorDescription = NotDescribed
    /\ ToolIdle
    /\ DefaultIdle
    /\ ToolkitIdle
    /\ RefIdle
    /\ SelectIdle

SpecErrorDescription == ErrorDescriptionInit /\ [][DescribeError]_vars

\* mcpToolToDynamicTool is applied to the tool under examination
BuildTool ==
    /\ dynamicTool = NotBuilt
    /\ dynamicTool' = McpToolToDynamicTool(tool)
    /\ UNCHANGED <<execVars, loadVars, callVars, chatVars, errVars, tool, defaultVars, toolkitVars,
                   refVars, selectVars>>

DynamicToolInit ==
    /\ ExecIdle
    /\ LoadIdle
    /\ CallIdle
    /\ ChatIdle
    /\ ErrIdle
    /\ tool \in McpTools
    /\ dynamicTool = NotBuilt
    /\ DefaultIdle
    /\ ToolkitIdle
    /\ RefIdle
    /\ SelectIdle

SpecDynamicTool == DynamicToolInit /\ [][BuildTool]_vars

\* parseDefault is applied to the schema under examination
ThrowDefault ==
    /\ thrown = NotThrown
    /\ thrown' = ParseDefault(schemaInput)
    /\ UNCHANGED <<execVars, loadVars, callVars, chatVars, errVars, toolVars, schemaInput, toolkitVars,
                   refVars, selectVars>>

ParseDefaultInit ==
    /\ ExecIdle
    /\ LoadIdle
    /\ CallIdle
    /\ ChatIdle
    /\ ErrIdle
    /\ ToolIdle
    /\ schemaInput \in DefaultSchemas
    /\ thrown = NotThrown
    /\ ToolkitIdle
    /\ RefIdle
    /\ SelectIdle

SpecParseDefault == ParseDefaultInit /\ [][ThrowDefault]_vars

\* a toolkit is built from the catalogue under examination
BuildCatalogue ==
    /\ toolkit = NotBuiltToolkit
    /\ toolkit' = BuildToolkit(catalogue, 1, <<>>, <<>>)
    /\ UNCHANGED <<execVars, loadVars, callVars, chatVars, errVars, toolVars, defaultVars, catalogue,
                   refVars, selectVars>>

ToolkitInit ==
    /\ ExecIdle
    /\ LoadIdle
    /\ CallIdle
    /\ ChatIdle
    /\ ErrIdle
    /\ ToolIdle
    /\ DefaultIdle
    /\ catalogue \in Catalogues
    /\ toolkit = NotBuiltToolkit
    /\ RefIdle
    /\ SelectIdle

SpecToolkit == ToolkitInit /\ [][BuildCatalogue]_vars

\* the validator compiled from the recursive schema is applied to the sample
Validate ==
    /\ verdict = "pending"
    /\ verdict' = ValidateSample(sample)
    /\ UNCHANGED <<execVars, loadVars, callVars, chatVars, errVars, toolVars, defaultVars, toolkitVars,
                   sample, selectVars>>

SelfReferenceInit ==
    /\ ExecIdle
    /\ LoadIdle
    /\ CallIdle
    /\ ChatIdle
    /\ ErrIdle
    /\ ToolIdle
    /\ DefaultIdle
    /\ ToolkitIdle
    /\ sample \in Samples
    /\ verdict = "pending"
    /\ SelectIdle

SpecSelfReference == SelfReferenceInit /\ [][Validate]_vars

\* getSelectedTools is applied to the arguments under examination
Select ==
    /\ ~selectedTools.done
    /\ selectedTools' =
          [done |-> TRUE,
           tools |-> GetSelectedTools(selection.mode, selection.includeTools,
                                      selection.excludeTools, selection.tools)]
    /\ UNCHANGED <<execVars, loadVars, callVars, chatVars, errVars, toolVars, defaultVars, toolkitVars,
                   refVars, selection>>

SelectedToolsInit ==
    /\ ExecIdle
    /\ LoadIdle
    /\ CallIdle
    /\ ChatIdle
    /\ ErrIdle
    /\ ToolIdle
    /\ DefaultIdle
    /\ ToolkitIdle
    /\ RefIdle
    /\ selection \in Selections
    /\ selectedTools = NotSelected

SpecSelectedTools == SelectedToolsInit /\ [][Select]_vars

\* the function made by createCallTool is invoked once
Invoke ==
    /\ ~callReturn.done
    /\ callReturn' = CreateCallTool(callInput.name, callInput.response,
                                    callInput.onErrorReturn)
    /\ UNCHANGED <<execVars, loadVars, errVars, toolVars, defaultVars, toolkitVars,
                   refVars, selectVars, callInput, chatVars>>

CallToolInit ==
    /\ ExecIdle
    /\ LoadIdle
    /\ ErrIdle
    /\ ToolIdle
    /\ DefaultIdle
    /\ ToolkitIdle
    /\ RefIdle
    /\ SelectIdle
    /\ callInput \in Invokes
    /\ callReturn = NotInvoked
    /\ ChatIdle

SpecCallTool == CallToolInit /\ [][Invoke]_vars

\* restoreChatHistory is applied to the execution under examination
Restore ==
    /\ ~chatHistory.done
    /\ chatHistory' = [done |-> TRUE, messages |-> RestoreChatHistory(workflowExecutionData)]
    /\ UNCHANGED <<execVars, loadVars, errVars, toolVars, defaultVars, toolkitVars,
                   refVars, selectVars, callVars, workflowExecutionData>>

ChatHistoryInit ==
    /\ ExecIdle
    /\ LoadIdle
    /\ ErrIdle
    /\ ToolIdle
    /\ DefaultIdle
    /\ ToolkitIdle
    /\ RefIdle
    /\ SelectIdle
    /\ CallIdle
    /\ workflowExecutionData \in ExecutionResponses
    /\ chatHistory = NotRestored

SpecChatHistory == ChatHistoryInit /\ [][Restore]_vars

(* ============================== properties ============================== *)
Finished(j) == itemState[j] \in {"fulfilled", "fulfilledBadJson", "rejected"}

\* the finally block of toolsAgentExecute was entered and left
TeardownRan ==
    /\ pc = "done"
    /\ outcome.err.err \notin {"outputParser", "memory", "model"}

EntryKeys(seq) == {seq[n].key : n \in DOMAIN seq}

C2_ClosersRunOnEveryExit ==
    pc = "done" =>
        \A n \in DOMAIN closeFunctions : closeCalls[closeFunctions[n].key] >= 1

\* C3: a closer is never invoked for a key that did not reach Ready, never more
\* than once, and when the execution is over exactly once for every key that did.
C3_CloserCountExact ==
    /\ \A k \in Keys : closeCalls[k] <= 1 /\ (opened[k] = {} => closeCalls[k] = 0)
    /\ (pc = "done" =>
            \A k \in Keys : closeCalls[k] = (IF opened[k] = {} THEN 0 ELSE 1))

C5_CloseAllIsolatesFailures ==
    TeardownRan =>
        /\ Len(closeLog) = Len(closeFunctions)
        /\ \A n \in DOMAIN closeFunctions :
              /\ closeLog[n].key = closeFunctions[n].key
              /\ closeCalls[closeFunctions[n].key] = 1
              /\ (closeLog[n].result = "error" <=> closeFunctions[n].key \in closeThrew)

\* the first of several closers threw and the ones after it were still invoked
C5_Witness ==
    /\ TeardownRan
    /\ Len(closeFunctions) = NumKeys
    /\ closeThrew = {closeFunctions[1].key}

\* the items that make the try block throw
Failing ==
    {j \in Items : /\ j < nItems
                   /\ \/ itemState[j] = "fulfilledBadJson"
                      \/ (itemState[j] = "rejected" /\ ~continueOnFail)}

FirstFailing == CHOOSE j \in Failing : \A m \in Failing : j <= m

\* what the try block by itself amounts to
PrimaryOutcome ==
    IF Failing = {} THEN [kind |-> "returned", err |-> NoErr]
    ELSE [kind |-> "threw",
          err |-> IF itemState[FirstFailing] = "rejected"
                  THEN ItemErr(FirstFailing) ELSE ParseErr(FirstFailing)]

\* C6: after teardown the execution has returned if the body succeeded (with one
\* entry per item) and has thrown the body's own error if it failed, whether or
\* not closers threw.
C6_CloseFailuresKeepOutcome ==
    TeardownRan =>
        /\ outcome = PrimaryOutcome
        /\ (outcome.kind = "returned" => Len(returnData) = nItems)

\* an item failed, closers threw as well, and the item's error is what is thrown
C6_Witness ==
    /\ TeardownRan
    /\ outcome.kind = "threw"
    /\ outcome.err.err = "item"
    /\ closeThrew = EntryKeys(closeFunctions)
    /\ closeThrew # {}

\* C7: when the catalogue lookup is over, a client it opened has been closed
\* exactly once.
C7_LookupClosesItsClient ==
    (lpc = "done" /\ client # "none") => (client = "closed" /\ nClose = 1)

LegalMove(a, b) ==
    \/ a = b
    \/ a = "Absent" /\ b = "Populating"
    \/ a = "Populating" /\ b \in {"Ready", "Absent"}
    \/ a = "Ready" /\ b = "Closed"

\* C8: a key only moves Absent -> Populating -> Ready -> Closed or Populating ->
\* Absent; nothing leaves Closed, a key is Closed exactly when its closer has been
\* invoked, and a tool call only starts on a key that is Ready.
C8_LifecycleTransitions ==
    /\ [][\A k \in Keys : LegalMove(cache[k], cache'[k])]_vars
    /\ [](\A k \in Keys : cache[k] = "Closed" <=> closeCalls[k] > 0)
    /\ [][\A j \in Items :
            (inflight[j] = 0 /\ inflight'[j] # 0) =>
                cache[itemTools'[j][inflight'[j]].key] = "Ready"]_vars

\* a key was populated, read from the cache, used by tool calls and closed, while
\* another one is still Ready
C8_Witness ==
    \E k \in Keys :
        /\ pc = "finally"
        /\ cache[k] = "Closed"
        /\ got[k] = "cached"
        /\ nInvokes > 0
        /\ \E k2 \in Keys : cache[k2] = "Ready"

\* C9: a failing factory hands the error to the caller and leaves the key Absent
\* with nothing stored; a key without a connection has no entry among the tools and
\* closers and its closer count stays 0; and a getOrCreate after the failure runs
\* the factory again.
C9_FailedFactoryLeavesNothing ==
    /\ [][\A k \in Keys :
            (cache[k] = "Populating" /\ cache'[k] = "Absent") =>
                /\ got'[k] = "error"
                /\ opened' = opened
                /\ tools' = tools /\ closeFunctions' = closeFunctions]_vars
    /\ [](\A k \in Keys :
            opened[k] = {} =>
                /\ cache[k] \in {"Absent", "Populating"}
                /\ closeCalls[k] = 0
                /\ k \notin EntryKeys(tools) \cup EntryKeys(closeFunctions))
    /\ [][\A k \in Keys :
            (got[k] = "error" /\ attempts'[k] > attempts[k]) =>
                cache'[k] = "Populating"]_vars

\* the factory of one key failed, the key ended Absent and teardown, which
\* closed another key, left it alone
C9_Witness ==
    \E k1 \in Keys, k2 \in Keys :
        /\ pc = "done"
        /\ got[k1] = "error" /\ cache[k1] = "Absent" /\ closeCalls[k1] = 0
        /\ closeCalls[k2] = 1

\* C10: the tools and closers handed out by the acquisition never change
\* afterwards, every item that has started works with exactly that tools array,
\* the connection of a key is never replaced, and a cached read changes nothing
\* but what the caller gets.
C10_EntryNeverReplaced ==
    /\ [](\A j \in Items : itemState[j] # "idle" => itemTools[j] = tools)
    /\ [][pc \notin {"start", "getTools"} =>
            tools' = tools /\ closeFunctions' = closeFunctions]_vars
    /\ [][\A k \in Keys : opened[k] # {} => opened'[k] = opened[k]]_vars
    /\ [][\A k \in Keys :
            (got'[k] = "cached" /\ got[k] # "cached") =>
                /\ cache[k] = "Ready"
                /\ UNCHANGED <<cache, attempts, waiting, opened, tools, closeFunctions>>]_vars

\* items of two different batches both ran on the same two-provider tools array
C10_Witness ==
    /\ Len(tools) = NumKeys
    /\ i >= 1
    /\ Finished(0)
    /\ inflight[1] # 0
    /\ itemTools[0] = itemTools[1]


(* ----------------------- catalogue listing ----------------------------- *)
\* the tools of the first n answered pages, page after page
RECURSIVE PagesInOrder(_, _)
PagesInOrder(responses, n) ==
    IF n = 0 THEN <<>>
    ELSE PagesInOrder(responses, n - 1) \o
         (IF responses[n].tools.isArray THEN responses[n].tools.tools ELSE <<>>)

AllPagesAreArrays == \A k \in DOMAIN served : served[k].tools.isArray
\* a listTools request was sent and not answered
RequestFailed == Len(requests) > Len(served)

\* C11: a listing over pages that all carry an array of tools returns exactly
\* the pages' tools concatenated in the order of the cursor chain, each page in
\* its own order.
C11_ListingIsConcatenation ==
    (lresult.kind = "returned" /\ AllPagesAreArrays)
        => lresult.value = PagesInOrder(served, Len(served))

C11_Witness ==
    /\ lresult.kind = "returned"
    /\ Len(served) = 2
    /\ served[1].tools = [isArray |-> TRUE, tools |-> <<"a", "b">>]
    /\ served[2].tools = [isArray |-> TRUE, tools |-> <<"b", "a">>]
    /\ lresult.value = <<"a", "b", "b", "a">>

\* C12: a page whose tools field is no array adds nothing and does not fail the
\* listing; when it carries a next cursor the listing goes on, and the tools of
\* the other pages are all returned.
C12_NonArrayPageIsEmpty ==
    \A k \in DOMAIN served :
        ~served[k].tools.isArray =>
            /\ (lpc = "done" /\ ~RequestFailed) => lresult.kind = "returned"
            /\ (served[k].nextCursor # 0 /\ k = Len(served) /\ ~RequestFailed)
                   => lpc = "list"
            /\ lresult.kind = "returned" =>
                   lresult.value =
                       PagesInOrder(SelectSeq(served, LAMBDA r : r.tools.isArray),
                                    Len(SelectSeq(served, LAMBDA r : r.tools.isArray)))

C12_Witness ==
    /\ lresult.kind = "returned"
    /\ Len(served) = 2
    /\ ~served[1].tools.isArray
    /\ served[1].nextCursor # 0
    /\ served[2].tools = [isArray |-> TRUE, tools |-> <<"a", "b">>]
    /\ lresult.value = <<"a", "b">>

\* C13: when a listTools request fails, the lookup ends with that error, hands
\* out none of the tools of the pages before it, and sends no further request.
C13_FailedPageFailsListing ==
    /\ [](RequestFailed =>
            /\ lpc = "done"
            /\ lresult = [kind |-> "threw", value |-> <<"listTools">>])
    /\ [][RequestFailed => (requests' = requests /\ lresult' = lresult)]_vars

C13_Witness ==
    /\ RequestFailed
    /\ Len(served) = 1
    /\ served[1].tools = [isArray |-> TRUE, tools |-> <<"a", "b">>]
    /\ served[1].nextCursor # 0
    /\ lresult.kind = "threw"

\* C14: one request per page: the first without a cursor, each later one with
\* the cursor of the page before it, and none after a page without next cursor.
C14_OneRequestPerPage ==
    /\ Len(served) <= Len(requests)
    /\ Len(requests) <= Len(served) + 1
    /\ Len(requests) >= 1 => requests[1] = 0
    /\ \A k \in 2..Len(requests) :
          /\ requests[k] = served[k - 1].nextCursor
          /\ requests[k] # 0
    /\ \A k \in DOMAIN served : served[k].cursor = requests[k]
    /\ lresult.kind = "returned" =>
          /\ Len(requests) = Len(served)
          /\ served[Len(served)].nextCursor = 0

C14_Witness ==
    /\ lresult.kind = "returned"
    /\ requests = <<0, 2>>
    /\ Len(served) = 2
    /\ served[1].nextCursor = 2
    /\ served[2].nextCursor = 0

(* -------------------------- tool invocation ---------------------------- *)
\* a tool invocation of item j ends in this step
InvocationEnds == \E j \in Items : inflight[j] # 0 /\ inflight'[j] = 0

\* C15: a tool invocation never leaves createCallTool as a thrown error: a
\* failed one is the result the error callback gave.  The step changes neither
\* the connections, the toolkit, the closers nor the cache, and the item that
\* made the call keeps running with the same tools.
C15_InvocationFailureIsAResult ==
    /\ [](lastCall.via \in {"none", "return", "onError"})
    /\ [](lastCall.failed => lastCall.via = "onError")
    /\ [][InvocationEnds =>
            UNCHANGED <<cache, opened, tools, closeFunctions, closeCalls,
                        itemState, itemTools>>]_vars

C15_Witness ==
    /\ nItems = 1
    /\ lastCall.failed
    /\ lastCall.via = "onError"
    /\ inflight[0] # 0
    /\ itemTools[0][inflight[0]].key = lastCall.key
    /\ cache[lastCall.key] = "Ready"

(* ------------------------- error description --------------------------- *)
\* the description by the stated precedence: the text of the first text-bearing
\* element of a content array, else the string toolResult, else the string
\* message, else none
PrecedenceDescription(result) ==
    IF ~result.isObject THEN Undefined
    ELSE IF result.content.kind = "array"
            /\ \E k \in DOMAIN result.content.items :
                  /\ result.content.items[k].isObject
                  /\ result.content.items[k].text.isString
         THEN LET first == CHOOSE k \in DOMAIN result.content.items :
                              /\ result.content.items[k].isObject
                              /\ result.content.items[k].text.isString
                              /\ \A m \in 1..(k - 1) :
                                    ~(/\ result.content.items[m].isObject
                                      /\ result.content.items[m].text.isString)
              IN  Str(result.content.items[first].text.value)
         ELSE IF result.toolResult.isString THEN Str(result.toolResult.value)
         ELSE IF result.message.isString THEN Str(result.message.value)
         ELSE Undefined

\* C16: the error description follows the precedence content text, toolResult,
\* message, none; a content array without text and a string message give the
\* message.
C16_ErrorDescriptionPrecedence ==
    errorDescription # NotDescribed =>
        errorDescription = PrecedenceDescription(callError)

(* ------------------------------ connect -------------------------------- *)
ConnectIsOver == lpc \notin {"idle", "start", "connect"}

\* C17: an endpoint without http or https scheme is validated with https://
\* in front; when it is malformed the result is invalid_url, no transport is
\* created and connect is not called.
C17_InvalidAddressNoConnect ==
    (ConnectIsOver /\ sseEndpoint.scheme \notin {"http", "https"}) =>
        IF sseEndpoint.wellFormed
        THEN transport = [scheme |-> "https", wellFormed |-> TRUE]
        ELSE /\ connResult.type = "invalid_url"
             /\ transport.scheme = "none"
             /\ nConnect = 0
             /\ client = "none"

C17_Witness ==
    /\ lpc = "done"
    /\ sseEndpoint = [scheme |-> "none", wellFormed |-> FALSE]
    /\ connResult.type = "invalid_url"
    /\ nConnect = 0

\* C18: on a valid endpoint connect is called exactly once; a failed handshake
\* comes back as a connection error value with its cause, is not thrown and is
\* not tried again.
C18_OneConnectAttempt ==
    /\ nConnect <= 1
    /\ (ConnectIsOver /\ sseEndpoint.wellFormed) =>
          /\ nConnect = 1
          /\ connResult.type \in {"client", "connection"}
          /\ connResult.type = "connection" =>
                /\ ~connResult.ok
                /\ connResult.error \in HandshakeErrors
                /\ client = "none"
                /\ lpc = "done"

C18_Witness ==
    /\ lpc = "done"
    /\ sseEndpoint.wellFormed
    /\ connResult = [ok |-> FALSE, type |-> "connection", error |-> "refused"]
    /\ nConnect = 1

(* ------------------------- schema conversion --------------------------- *)
\* a schema that is unconstrained on purpose: absent, empty object, or true
IntentionallyUnconstrained(schema) ==
    \/ schema.form \in {"absent", "true"}
    \/ schema.form = "object" /\ NoKeys(schema)

\* a schema object with a construct outside the supported subset
OutsideSupportedSubset(schema) ==
    /\ schema.form = "object"
    /\ \/ schema.ref \notin {"none", "#"}
       \/ schema.hasDefault
       \/ schema.hasFormat
       \/ schema.type = "mystery"

\* C19: a tool whose validator accepts every value is built only for a schema
\* that is unconstrained on purpose.
C19_NoSilentAcceptAnything ==
    (dynamicTool.kind = "tool" /\ dynamicTool.schema.accepts = "anything")
        => IntentionallyUnconstrained(tool.inputSchema)

\* C20: a schema with a construct outside the supported subset fails with an
\* UnsupportedSchemaError, which the tool builder reports as a schema
\* conversion error (NodeOperationError).
C20_UnsupportedSchemaErrorClass ==
    (dynamicTool.kind # "pending" /\ OutsideSupportedSubset(tool.inputSchema)) =>
        /\ dynamicTool.kind = "threw"
        /\ dynamicTool.cause = "UnsupportedSchemaError"
        /\ dynamicTool.error = "NodeOperationError"


Names(seq) == [k \in DOMAIN seq |-> seq[k].name]

C23_ConversionFailureByClass ==
    /\ (dynamicTool.kind = "threw" /\ dynamicTool.cause = "UnsupportedSchemaError") =>
          /\ dynamicTool.error = "NodeOperationError"
          /\ dynamicTool.message.toolName = tool.name
          /\ dynamicTool.message.text = "Schema conversion error"
          /\ dynamicTool.message.original # NoMessage
          /\ (tool.inputSchema.type = "mystery" /\ ~tool.inputSchema.hasDefault
                /\ ~tool.inputSchema.hasFormat) =>
                dynamicTool.message.original.detail = <<"mystery">>
          /\ dynamicTool.message.schema = <<tool.inputSchema>>
    /\ (dynamicTool.kind = "threw" /\ dynamicTool.cause # "UnsupportedSchemaError") =>
          /\ dynamicTool.error = dynamicTool.cause
          /\ dynamicTool.error # "NodeOperationError"
    /\ dynamicTool.kind = "tool" =>
          /\ dynamicTool.name = tool.name
          /\ dynamicTool.description = (IF tool.hasDescription THEN "described" ELSE "")
          /\ dynamicTool.schema.ok
          /\ dynamicTool.schema = ConvertJsonSchemaToZod(tool.inputSchema)

C23_Witness ==
    /\ dynamicTool.kind = "threw"
    /\ dynamicTool.error = "NodeOperationError"
    /\ tool.inputSchema.type = "mystery"
    /\ dynamicTool.message.original.detail = <<"mystery">>
    /\ dynamicTool.message.toolName = "b"

(* ------------------------ recursive schemas ---------------------------- *)
\* C24: the validator of a schema with a root self-reference applies the root
\* schema at every nesting level: a value is accepted exactly when every level
\* matches.
C24_SelfReferenceValidatesNested ==
    verdict # "pending" =>
        verdict = (IF \A k \in DOMAIN sample : sample[k] = "matches"
                   THEN "accepted" ELSE "rejected")

(* -------------------------- getSelectedTools --------------------------- *)
\* C25: selected with an empty or absent include list gives all tools, selected
\* with a list the tools named in it, except the tools not named in the exclude
\* list, every other mode all tools; the order of the catalogue is kept.
C25_SelectionFilter ==
    selectedTools.done =>
        LET all == selection.tools
            out == selectedTools.tools
            inc == selection.includeTools
            exc == selection.excludeTools
        IN  /\ (selection.mode = "selected" /\ (~inc.present \/ inc.names = {}))
                   => out = all
            /\ (selection.mode = "selected" /\ inc.present /\ inc.names # {})
                   => out = SelectSeq(all, LAMBDA n : n \in inc.names)
            /\ (selection.mode = "except" /\ ~exc.present) => out = all
            /\ (selection.mode = "except" /\ exc.present)
                   => out = SelectSeq(all, LAMBDA n : n \notin exc.names)
            /\ selection.mode \in {"all", "other"} => out = all

C25_Witness ==
    /\ selectedTools.done
    /\ selection.mode = "selected"
    /\ selection.includeTools = [present |-> TRUE, names |-> {}]
    /\ selection.tools = <<"a", "b">>
    /\ selectedTools.tools = <<"a", "b">>

(* ------------------------- who closes a handle ------------------------- *)
\* C26: a closer is invoked, and an entry becomes Closed, only in a turn of the
\* teardown loop and only for the entry that turn is about; a step that ends a
\* tool invocation closes nothing.
C26_OnlyTeardownCloses ==
    /\ [][\A k \in Keys :
            (closeCalls'[k] # closeCalls[k] \/ (cache[k] # "Closed" /\ cache'[k] = "Closed"))
                => /\ pc = "finally"
                   /\ closeIdx' = closeIdx + 1
                   /\ closeIdx' \in DOMAIN closeFunctions
                   /\ closeFunctions[closeIdx'].key = k]_vars
    /\ [][InvocationEnds => closeCalls' = closeCalls]_vars

C26_Witness ==
    /\ pc = "await"
    /\ lastCall.failed
    /\ nInvokes = MaxCalls
    /\ cache[lastCall.key] = "Ready"
    /\ closeCalls[lastCall.key] = 0

(* ------------------------------ liveness ------------------------------- *)
\* C27: a tool call in flight comes to an end, and the execution goes on to
\* its teardown, even when the remote side never answers.
C27_InvokeEventuallyReturns ==
    \A j \in Items :
        /\ (inflight[j] # 0) ~> (inflight[j] = 0)
        /\ (inflight[j] # 0) ~> (pc \in {"finally", "done"})

C27_Witness ==
    /\ pc = "finally"
    /\ lastCall = [failed |-> TRUE, via |-> "onError", key |-> 1]
    /\ nItems = 2
    /\ nInvokes = 2

(* ------------------------------ headers -------------------------------- *)
\* C28: getAuthHeaders never throws; without a credential (the lookup fails or
\* gives nothing), with mode none and with an unknown mode there are no
\* headers; a header credential gives exactly its header, a bearer credential
\* exactly Authorization: Bearer <token>.
C28_AuthHeadersNeverFail ==
    lpc \notin {"idle", "start"} =>
        /\ ~headers.threw
        /\ (authentication \in {"none", "other"} \/ credential \in {"rejected", "nothing"})
              => headers.headers = {}
        /\ (authentication = "headerAuth" /\ credential = "resolved")
              => headers.headers = {[name |-> "X-Api-Key", value |-> "secret"]}
        /\ (authentication = "bearerAuth" /\ credential = "resolved")
              => headers.headers = {[name |-> "Authorization", value |-> "Bearer tok"]}

C28_Witness ==
    /\ lpc = "connect"
    /\ authentication = "bearerAuth"
    /\ credential = "rejected"
    /\ headers.headers = {}

(* -------------------------- no deduplication --------------------------- *)
\* how often a name occurs in a sequence of names
Occurrences(name, seq) == Cardinality({k \in DOMAIN seq : seq[k] = name})

\* how often a name occurs on the first n answered pages
RECURSIVE OccurrencesOnPages(_, _, _)
OccurrencesOnPages(name, responses, n) ==
    IF n = 0 THEN 0
    ELSE OccurrencesOnPages(name, responses, n - 1) +
         (IF responses[n].tools.isArray
          THEN Occurrences(name, responses[n].tools.tools) ELSE 0)

\* the number of tools on the first n answered pages
RECURSIVE PageLengths(_, _)
PageLengths(responses, n) ==
    IF n = 0 THEN 0
    ELSE PageLengths(responses, n - 1) +
         (IF responses[n].tools.isArray THEN Len(responses[n].tools.tools) ELSE 0)

\* C29: the listing removes no duplicates: its length is the sum of the page
\* lengths and every name occurs in it as often as on all pages together.
C29_NoDeduplication ==
    lresult.kind = "returned" =>
        /\ Len(lresult.value) = PageLengths(served, Len(served))
        /\ \A name \in ToolNames :
              Occurrences(name, lresult.value) =
                  OccurrencesOnPages(name, served, Len(served))

C29_Witness ==
    /\ lresult.kind = "returned"
    /\ Len(served) = 2
    /\ served[1].tools = [isArray |-> TRUE, tools |-> <<"a", "b">>]
    /\ served[2].tools = [isArray |-> TRUE, tools |-> <<"a", "a">>]
    /\ lresult.value = <<"a", "b", "a", "a">>

(* --------------------------- loop termination -------------------------- *)
\* C30: the batch loop comes to its end and the teardown is reached, whatever
\* the batch size.
C30_BatchLoopTerminates == (pc = "loop") ~> (pc \in {"finally", "done"})

\* items of the batch that starts at the current value of i may run; every item
\* before it has settled and no item after it has started
OnlyCurrentBatchRuns ==
    \A j \in Items :
        /\ (itemState[j] = "running" => (j \in Batch /\ pc = "await"))
        /\ ((j < i /\ j < nItems) => Settled(j))
        /\ (j >= i + batchSize => itemState[j] = "idle")
        /\ (inflight[j] # 0 => itemState[j] = "running")

\* C31: batches run one after another: an item runs only as part of the current
\* batch, after every item of the batches before it has settled and before any
\* item of a later batch has started; the delay begins only when the current batch
\* has settled and another batch is still to come, never after the last batch.
C31_BatchesRunInSequence ==
    /\ OnlyCurrentBatchRuns
    /\ (pc = "sleep" =>
            /\ AllSettled(Batch)
            /\ delayBetweenBatches > 0
            /\ i + batchSize < nItems)

\* the second batch runs after the delay that followed the first one, whose item
\* has settled
C31_Witness ==
    /\ pc = "await"
    /\ batchSize = 1
    /\ delayBetweenBatches > 0
    /\ i = 1
    /\ Settled(0)
    /\ itemState[1] = "running"

\* two items of one batch have a call in flight on the same tool at the same time
ConcurrentInOneBatch ==
    /\ batchSize = 2
    /\ inflight[0] # 0
    /\ inflight[1] # 0
    /\ itemTools[0][inflight[0]].key = itemTools[1][inflight[1]].key

\* the output entries pair the items 0..n-1 in input order, an error entry exactly
\* for the items whose promise was rejected
OneEntryPerItem(n) ==
    /\ Len(returnData) = n
    /\ \A m \in 1..n :
          /\ returnData[m].item = m - 1
          /\ (returnData[m].kind = "error" <=> itemState[m - 1] = "rejected")

\* C32: with continue-on-fail enabled no item makes the try block throw, and an
\* execution that went through the batch loop ends by returning one output entry
\* per input item, in input order, each paired with its own item index.
C32_OneEntryPerItemOnContinue ==
    continueOnFail =>
        /\ pending.err \notin {"item", "jsonParse"}
        /\ (TeardownRan /\ pending = NoErr => OneEntryPerItem(nItems))

\* the items whose promise has settled as a failure, or whose output was not taken
FailedItems == {j \in Items : itemState[j] \in {"rejected", "fulfilledBadJson"}}

\* C33: with continue-on-fail disabled, a failed item of the current batch makes
\* the try block throw, but not before every item of the batch has settled; the
\* error thrown is that of the lowest-indexed failed item of the batch; no item of
\* a later batch is started; and when the error has reached the caller the finally
\* loop has invoked every closer exactly once.
C33_FailFastAfterBatchSettles ==
    ~continueOnFail =>
        /\ (pending.err \in {"item", "jsonParse"} =>
                /\ pc \in {"finally", "done"}
                /\ AllSettled(Batch)
                /\ pending.item \in Batch \cap FailedItems
                /\ \A m \in Batch \cap FailedItems : pending.item <= m
                /\ (pending.err = "item" <=> itemState[pending.item] = "rejected")
                /\ \A j \in Items : j >= i + batchSize => itemState[j] = "idle")
        /\ ((FailedItems # {} /\ ~AllSettled(Batch)) =>
                pending = NoErr /\ pc = "await" /\ outcome.kind = "running")
        /\ ((FailedItems # {} /\ pc = "done") =>
                /\ outcome = [kind |-> "threw", err |-> pending]
                /\ pending.err \in {"item", "jsonParse"}
                /\ closeIdx = Len(closeFunctions)
                /\ \A n \in DOMAIN closeFunctions :
                      closeCalls[closeFunctions[n].key] = 1)

\* in a batch of two the first item was fulfilled and the second rejected; both
\* settled, the second item's error was thrown after the closer had been invoked
C33_Witness ==
    /\ ~continueOnFail
    /\ pc = "done"
    /\ batchSize = 2
    /\ nItems = 2
    /\ itemState[0] = "fulfilled"
    /\ itemState[1] = "rejected"
    /\ outcome = [kind |-> "threw", err |-> ItemErr(1)]
    /\ Len(closeFunctions) >= 1
    /\ closeCalls[closeFunctions[1].key] = 1

\* C34: an invoke sends exactly one request, for the tool's own name; a rejected
\* call and a result flagged isError give what the error callback returns,
\* whatever payload the result carries; any other result gives its toolResult
\* if that is defined, else its content if that is defined, else the result itself.
C34_CallToolPrecedence ==
    callReturn.done =>
        LET r == callInput.response IN
        /\ callReturn.requests = <<callInput.name>>
        /\ (r.threw \/ r.isError = "true") =>
              (callReturn.via = "onError" /\ callReturn.value = callInput.onErrorReturn)
        /\ (~r.threw /\ r.isError # "true" /\ r.toolResult # "undefined") =>
              (callReturn.via = "toolResult" /\ callReturn.value = r.toolResult)
        /\ (~r.threw /\ r.isError # "true" /\ r.toolResult = "undefined"
                /\ r.content # "undefined") =>
              (callReturn.via = "content" /\ callReturn.value = r.content)
        /\ (~r.threw /\ r.isError # "true" /\ r.toolResult = "undefined"
                /\ r.content = "undefined") =>
              callReturn.via = "result"

\* a result flagged isError that carries a toolResult and a content went to the
\* error callback, whose return value came back
C34_Witness ==
    /\ callReturn.done
    /\ callInput.response.isError = "true"
    /\ callInput.response.toolResult = "value"
    /\ callInput.response.content = "text"
    /\ callInput.onErrorReturn = "handled"
    /\ callReturn.via = "onError"
    /\ callReturn.value = "handled"

\* r is t with some of its entries left out, the others in their order
IsSubsequence(r, t) ==
    \E f \in [DOMAIN r -> DOMAIN t] :
        /\ \A k \in DOMAIN r : r[k] = t[f[k]]
        /\ \A k, m \in DOMAIN r : k < m => f[k] < f[m]

\* the lists a and b share no name and hold between them every entry of t
Partition(a, b, t) ==
    /\ {a[k] : k \in DOMAIN a} \cap {b[k] : k \in DOMAIN b} = {}
    /\ \A name \in ToolNames :
          Occurrences(name, a) + Occurrences(name, b) = Occurrences(name, t)

\* C35: what the selection filter returns is a subsequence of the catalogue, in the
\* catalogue's order; filtering the result again with the same arguments changes
\* nothing; and for a non-empty list of names, what 'selected' keeps and what
\* 'except' keeps with that list partition the catalogue.
C35_SelectionAlgebra ==
    selectedTools.done =>
        /\ IsSubsequence(selectedTools.tools, selection.tools)
        /\ GetSelectedTools(selection.mode, selection.includeTools,
                            selection.excludeTools, selectedTools.tools)
              = selectedTools.tools
        /\ (selection.mode = "selected" /\ selection.includeTools.names # {}) =>
              Partition(selectedTools.tools,
                        GetSelectedTools("except", selection.excludeTools,
                                         selection.includeTools, selection.tools),
                        selection.tools)
        /\ (selection.mode = "except" /\ selection.excludeTools.names # {}) =>
              Partition(GetSelectedTools("selected", selection.excludeTools,
                                         selection.includeTools, selection.tools),
                        selectedTools.tools,
                        selection.tools)

\* 'except' with one listed name left out one of two different entries
C35_Witness ==
    /\ selectedTools.done
    /\ selection.mode = "except"
    /\ Cardinality(selection.excludeTools.names) = 1
    /\ Len(selection.tools) = 2
    /\ selection.tools[1] # selection.tools[2]
    /\ Len(selectedTools.tools) = 1

\* the run extractBotResponse looks at
LastRunOf(d) ==
    IF d.runs = <<>> THEN [error |-> "none", json |-> UndefinedData]
    ELSE d.runs[Len(d.runs)]

\* the first of output, text, response.text that holds something, if any
TextPath(json) ==
    IF json.output # "falsy" THEN "output"
    ELSE IF json.text # "falsy" THEN "text"
    ELSE IF json.responseText # "falsy" THEN "response.text"
    ELSE "none"

\* at most a user message followed by a bot message, nothing without execution data
HistoryShape(d, m) ==
    /\ Len(m) <= 2
    /\ (~d.hasData => m = <<>>)
    /\ \A k \in DOMAIN m :
          /\ m[k].sender \in {"user", "bot"}
          /\ (m[k].sender = "user" => k = 1)
          /\ (m[k].sender = "bot" => k = Len(m))
    /\ (Len(m) = 2 => m[1].sender = "user")

NoBot(m) == \A k \in DOMAIN m : m[k].sender # "bot"
BotIs(m, text) == m # <<>> /\ m[Len(m)] = ChatMessage("bot", text)

\* the bot message by the run it comes from; serialized says whether response
\* data without any of the three texts is shown as JSON
BotFromRun(d, m, serialized) ==
    d.hasData =>
        LET run == LastRunOf(d) IN
        IF d.lastNodeExecuted = "undefined" THEN NoBot(m)
        ELSE IF run.error # "none" THEN BotIs(m, ChatText("[ERROR: ]", run.error))
        ELSE IF TextPath(run.json) # "none"
             THEN /\ ~NoBot(m)
                  /\ m[Len(m)].text.kind \in {"string", "fenced json"}
                  /\ m[Len(m)].text.of = TextPath(run.json)
        ELSE IF serialized /\ run.json.kind = "object"
             THEN ~NoBot(m) /\ m[Len(m)].text.kind = "json"
        ELSE IF d.emptyText = "fallback"
             THEN BotIs(m, ChatText("emptyText", "fallback"))
             ELSE NoBot(m)

\* C36 as stated: restoreChatHistory returns at most a user message followed by a
\* bot message and nothing without execution data; the bot message is the error
\* of the last run of the last executed node if it has one, otherwise the text at
\* the first of output, text, response.text, and with no such text the fallback
\* text, or no bot message when there is none (or no last executed node).
C36_RestoreChatHistory ==
    chatHistory.done =>
        /\ HistoryShape(workflowExecutionData, chatHistory.messages)
        /\ BotFromRun(workflowExecutionData, chatHistory.messages, FALSE)

\* C36 amended: as above, except that response data which is a non-empty object
\* without any of the three texts is shown as its JSON serialization; the
\* fallback text, or no bot message, is left for missing or empty response data.
C36_RestoreChatHistoryAmended ==
    chatHistory.done =>
        /\ HistoryShape(workflowExecutionData, chatHistory.messages)
        /\ BotFromRun(workflowExecutionData, chatHistory.messages, TRUE)

\* a user message is followed by the bot message taken from the text path of the
\* last run, whose output is empty, although an earlier run ended with an error
C36_Witness ==
    /\ chatHistory.done
    /\ Len(chatHistory.messages) = 2
    /\ Len(workflowExecutionData.runs) = 2
    /\ workflowExecutionData.runs[1].error # "none"
    /\ workflowExecutionData.runs[2].json.output = "falsy"
    /\ chatHistory.messages[1].sender = "user"
    /\ chatHistory.messages[2] = ChatMessage("bot", ChatText("string", "text"))

=============================================================================
